---- MODULE Spec2Model ----
(***************************************************************************)
(* Model of gousers: the utmp record decoder helpers, the session tracker  *)
(* GetUsers, the statistics, and the change notifiers (Login over          *)
(* fsnotify, vsnotify.New and utmp.NewNotify over polling).                *)
(*                                                                         *)
(* Text is modelled as a sequence of byte values (a Go string), a fixed    *)
(* width character array as a sequence of that width padded with zero      *)
(* bytes.  A time.Time is modelled as the pair of its seconds and          *)
(* nanoseconds.                                                            *)
(***************************************************************************)
EXTENDS Integers, Sequences, FiniteSets, TLC

\* ------------------------------------------------------------------------
\* Bounds of the model
\* ------------------------------------------------------------------------

\* number of records of a file replayed by the tracker
MaxRecs == 3

\* ------------------------------------------------------------------------
\* utmp.go: record kinds and field widths
\* ------------------------------------------------------------------------

RUN_LVL == 1

BOOT_TIME == 2

USER_PROCESS == 7

DEAD_PROCESS == 8

LINESIZE == 32

NAMESIZE == 32

HOSTSIZE == 256

\* width of Utmp.ID ([4]int8)
IDSIZE == 4

\* a character array of width n holding the text s, zero padded
Pad(s, n) == [i \in 1..n |-> IF i <= Len(s) THEN s[i] ELSE 0]

\* index of the first zero byte of src from place i on, or Len(src) + 1
\* when there is none
FirstNul(src, i) ==
    IF \A k \in i..Len(src) : src[k] # 0 THEN Len(src) + 1
    ELSE CHOOSE k \in i..Len(src) :
            src[k] = 0 /\ \A m \in i..(k - 1) : src[m] # 0

\* (continue in place of break: every zero byte is left out)
StrSkipsZeros(src) == SelectSeq(src, LAMBDA v : v # 0)

\* Str: the bytes of src before the first zero byte
Str(src) == SubSeq(src, 1, FirstNul(src, 1) - 1)

\* PID: little-endian uint32 of the four bytes
PID(pid) == pid[1] + 256 * pid[2] + 65536 * pid[3] + 16777216 * pid[4]

\* Time: time.Unix(sec, usec * 1000), as normalised (seconds, nanoseconds)
Time(tv) ==
    LET nsec == tv.Usec * 1000
    IN  [sec  |-> tv.Sec + (nsec \div 1000000000),
         nsec |-> nsec % 1000000000]

\* time.Time.After / time.Time.Before
After(t, s) == t.sec > s.sec \/ (t.sec = s.sec /\ t.nsec > s.nsec)

Before(t, s) == After(s, t)

\* IPv4: the four bytes of AddrV6[0], or the empty net.IP when it is zero
IPv4(addrV6) ==
    LET ip == addrV6[1]
    IN  IF ip # 0
        THEN << ip % 256, (ip \div 256) % 256,
                (ip \div 65536) % 256, (ip \div 16777216) % 256 >>
        ELSE << >>

\* ------------------------------------------------------------------------
\* const.go, api.go: login types
\* ------------------------------------------------------------------------

\* "xrdp-sesman"
XRDP_CMD == << 120, 114, 100, 112, 45, 115, 101, 115, 109, 97, 110 >>

UNKNOWN == 0

REMOTE == 1

REMOTE_X == 2

\* LOCAL of the source (a reserved word here)
LOCAL_T == 3

LOCAL_X == 4

\* "root"
RootName == << 114, 111, 111, 116 >>

\* ------------------------------------------------------------------------
\* proc.go, user.go: the process table and the user database
\* A process table maps a process id to [user, cmd] of a live process;
\* the lookups of any other process id fail.
\* ------------------------------------------------------------------------

\* GetUserByPID: [ok, name] of the effective user of the process
GetUserByPID(proc, pid) ==
    IF pid \in DOMAIN proc
    THEN [ok |-> TRUE, name |-> proc[pid].user]
    ELSE [ok |-> FALSE, name |-> << >>]

\* GetCmdline: [ok, cmd] of the command line of the process
GetCmdline(proc, pid) ==
    IF pid \in DOMAIN proc
    THEN [ok |-> TRUE, cmd |-> proc[pid].cmd]
    ELSE [ok |-> FALSE, cmd |-> << >>]

\* ------------------------------------------------------------------------
\* users.go: User.LoginType
\* ------------------------------------------------------------------------

\* regexp "^:[0-9]+$"
MatchX(s) ==
    /\ Len(s) >= 2
    /\ s[1] = 58
    /\ \A i \in 2..Len(s) : s[i] \in 48..57

\* regexp XRDP_CMD (unanchored): the command line contains the program name
MatchRDP(cmd) ==
    \E i \in 1..(Len(cmd) - Len(XRDP_CMD) + 1) :
        SubSeq(cmd, i, i + Len(XRDP_CMD) - 1) = XRDP_CMD

\* u.IP.Equal(net.IP{})
IPEmpty(ip) == ip = << >>

\* (a classification that takes a session with no host or no address for
\* a local one)
LoginTypeEitherEmpty(u, proc) ==
    IF MatchX(u.Host) \/ MatchX(u.ID) \/ MatchX(u.TTY)
    THEN IF IPEmpty(u.IP)
         THEN LET c == GetCmdline(proc, u.PID)
              IN  IF c.ok /\ MatchRDP(c.cmd) THEN REMOTE_X ELSE LOCAL_X
         ELSE UNKNOWN
    ELSE IF IPEmpty(u.IP) \/ u.Host = << >> THEN LOCAL_T ELSE REMOTE

\* (a classification that gives up when the command line cannot be read)
LoginTypeLookupFatal(u, proc) ==
    IF MatchX(u.Host) \/ MatchX(u.ID) \/ MatchX(u.TTY)
    THEN IF IPEmpty(u.IP)
         THEN LET c == GetCmdline(proc, u.PID)
              IN  IF ~c.ok THEN UNKNOWN
                  ELSE IF MatchRDP(c.cmd) THEN REMOTE_X ELSE LOCAL_X
         ELSE UNKNOWN
    ELSE IF IPEmpty(u.IP) /\ u.Host = << >> THEN LOCAL_T ELSE REMOTE

LoginType(u, proc) ==
    IF MatchX(u.Host) \/ MatchX(u.ID) \/ MatchX(u.TTY)
    THEN IF IPEmpty(u.IP)
         THEN LET c == GetCmdline(proc, u.PID)
              IN  IF c.ok /\ MatchRDP(c.cmd) THEN REMOTE_X ELSE LOCAL_X
         ELSE UNKNOWN
    ELSE IF IPEmpty(u.IP) /\ u.Host = << >> THEN LOCAL_T ELSE REMOTE

\* ------------------------------------------------------------------------
\* users.go: GetUsers, the session tracker
\* The tables are [base, pbase, ibase]: functions from the keys UserTTY,
\* TTYPID and TTYID, written <<user, tty>>, <<tty, pid>> and <<tty, id>>,
\* to the User they point to.
\* ------------------------------------------------------------------------

EmptyTables == [base |-> << >>, pbase |-> << >>, ibase |-> << >>]

\* m[k] = v of a Go map
Put(m, k, v) == [x \in (DOMAIN m) \cup {k} |-> IF x = k THEN v ELSE m[x]]

\* delete(m, k) of a Go map
Delete(m, k) == [x \in (DOMAIN m) \ {k} |-> m[x]]

\* the User built from a USER_PROCESS record, renamed by the EUID lookup
NewUser(u, useEUID, proc) ==
    LET nu == [Name |-> Str(u.User),
               PID  |-> PID(u.PID),
               TTY  |-> Str(u.Line),
               Host |-> Str(u.Host),
               IP   |-> IPv4(u.AddrV6),
               SID  |-> u.Session,
               ID   |-> Str(u.ID),
               Time |-> Time(u.TV)]
        r  == GetUserByPID(proc, nu.PID)
    IN  IF LoginType(nu, proc) = LOCAL_T /\ useEUID /\ r.ok
        THEN [nu EXCEPT !.Name = r.name]
        ELSE nu

\* the user name a DEAD_PROCESS record is resolved to
LogoutUser(t, u) ==
    LET user == Str(u.User)
        tp   == << Str(u.Line), PID(u.PID) >>
        ti   == << Str(u.Line), Str(u.ID) >>
    IN  IF user = << >>
        THEN IF tp \in DOMAIN t.pbase THEN t.pbase[tp].Name
             ELSE IF ti \in DOMAIN t.ibase THEN t.ibase[ti].Name
             ELSE user
        ELSE user

\* (a reboot that forgets the primary table only)
RebootKeepsIndices(t) == [t EXCEPT !.base = << >>]

\* a BOOT_TIME record: three new maps
Reboot(t) == EmptyTables

\* (a record of another kind that forgets the indices)
IgnoreForgetsIndices(t) == [t EXCEPT !.pbase = << >>, !.ibase = << >>]

\* a record that is neither BOOT_TIME, USER_PROCESS nor DEAD_PROCESS: no
\* branch of the loop body is taken
Ignore(t) == t

\* one turn of the read loop: the tables after record u
ProcessRecord(t, u, useEUID, proc) ==
    LET tty == Str(u.Line)
        ut  == << Str(u.User), tty >>
        tp  == << tty, PID(u.PID) >>
        ti  == << tty, Str(u.ID) >>
    IN  IF u.Type = BOOT_TIME THEN Reboot(t)
        ELSE IF u.Type = USER_PROCESS
        THEN LET nu == NewUser(u, useEUID, proc)
             IN  IF ut \in DOMAIN t.base /\ ~After(nu.Time, t.base[ut].Time)
                 THEN t
                 ELSE [base  |-> Put(t.base, ut, nu),
                       pbase |-> Put(t.pbase, tp, nu),
                       ibase |-> Put(t.ibase, ti, nu)]
        ELSE IF u.Type = DEAD_PROCESS
        THEN [base  |-> Delete(t.base, << LogoutUser(t, u), tty >>),
              pbase |-> Delete(t.pbase, tp),
              ibase |-> Delete(t.ibase, ti)]
        ELSE Ignore(t)

\* (the orders of a result that is not sorted)
AnyKeyOrders(base) ==
    LET n == Cardinality(DOMAIN base)
    IN  { ks \in [1..n -> DOMAIN base] :
            \A i, j \in 1..n : i # j => ks[i] # ks[j] }

\* the time-sorted orders in which the values of base can be returned:
\* the map is ranged over in any order and sort.Sort keeps no order of ties
SortedKeyOrders(base) ==
    LET n == Cardinality(DOMAIN base)
    IN  { ks \in [1..n -> DOMAIN base] :
            /\ \A i, j \in 1..n : i # j => ks[i] # ks[j]
            /\ \A i, j \in 1..n :
                 i < j => ~Before(base[ks[j]].Time, base[ks[i]].Time) }

UsersOf(base, ks) == [i \in 1..Len(ks) |-> base[ks[i]]]

\* GetUsers over a whole file: the tables after the records of recs
RECURSIVE Replay(_, _, _, _)
Replay(t, recs, useEUID, proc) ==
    IF recs = << >> THEN t
    ELSE Replay(ProcessRecord(t, Head(recs), useEUID, proc), Tail(recs),
                useEUID, proc)

\* ------------------------------------------------------------------------
\* user.go, users.go: GetUserInfo, GetUserLogin, GetLoginInfo, GetLoginStat
\* passwd is the set of the names the user database knows; the UserInfo of
\* a known name is modelled by the name.
\* ------------------------------------------------------------------------

\* time.Time{}: before every time a record holds
ZeroTime == [sec |-> -2147483647, nsec |-> 0]

\* GetUserInfo: [ok, info]
GetUserInfo(passwd, name) ==
    IF name \in passwd
    THEN [ok |-> TRUE, info |-> [Name |-> name]]
    ELSE [ok |-> FALSE, info |-> [Name |-> << >>]]

\* the loop of GetUserLogin / GetUserLogon over users, types[i] the type
\* the type function gives users[i]
UserLoginBy(types, users, name) ==
    LET RECURSIVE From(_, _)
        From(i, ul) ==
            IF i > Len(users) THEN ul
            ELSE LET u == users[i]
                     t == types[i]
                 IN  From(i + 1,
                          IF u.Name # name THEN ul
                          ELSE IF ul.Type < t
                          THEN [Type |-> t, Time |-> u.Time,
                                Logons |-> ul.Logons + 1]
                          ELSE [ul EXCEPT !.Logons = ul.Logons + 1])
    IN  From(1, [Type |-> UNKNOWN, Time |-> ZeroTime, Logons |-> 0])

\* Users.GetUserLogin
GetUserLogin(users, name, proc) ==
    UserLoginBy([i \in 1..Len(users) |-> LoginType(users[i], proc)],
                users, name)

\* Users.GetLoginInfo: [ok, info], info the UserInfo with the UserLogin
GetLoginInfo(users, name, proc, passwd) ==
    LET r  == GetUserInfo(passwd, name)
        ul == GetUserLogin(users, name, proc)
    IN  IF r.ok
        THEN [ok |-> TRUE,
              info |-> [Name |-> r.info.Name, Type |-> ul.Type,
                        Time |-> ul.Time, Logons |-> ul.Logons]]
        ELSE [ok |-> FALSE, info |-> [Name |-> << >>]]

\* no user: a nil *User, a nil *LoginInfo
Nil == [nil |-> TRUE]

\* (a regular session takes the place of the active one only when its type
\* is greater)
RankWinsStrict(held, t) == held < t

\* a regular session of type t takes the place of the active one, of type
\* held: Type <= t
RankWins(held, t) == held <= t

\* the loop of GetLoginStat / GetUsersStat over users, types[i] the type the
\* type function gives users[i]:
\* the name sets of the maps, the root flags, the active user and its type
StatLoopBy(types, users) ==
    LET RECURSIVE From(_, _)
        From(i, a) ==
          IF i > Len(users) THEN a
          ELSE
            LET u == users[i]
                t == types[i]
                b == [a EXCEPT !.total = a.total \cup {u.Name}]
            IN  From(i + 1,
                  IF u.Name = RootName
                  THEN LET c == IF t \in {LOCAL_X, LOCAL_T}
                                THEN [b EXCEPT !.localRoot = TRUE]
                                ELSE IF t \in {REMOTE_X, REMOTE}
                                THEN [b EXCEPT !.remoteRoot = TRUE]
                                ELSE [b EXCEPT !.localRoot = TRUE,
                                        !.unknown = b.unknown \cup {u.Name}]
                       IN  IF c.user = Nil \/ c.user.Name = RootName
                           THEN [c EXCEPT !.user = u, !.Type = t]
                           ELSE c
                  ELSE LET c == IF t = LOCAL_X
                                THEN [b EXCEPT !.localX = b.localX \cup {u.Name}]
                                ELSE IF t = LOCAL_T
                                THEN [b EXCEPT !.local = b.local \cup {u.Name}]
                                ELSE IF t = REMOTE_X
                                THEN [b EXCEPT !.remoteX = b.remoteX \cup {u.Name}]
                                ELSE IF t = REMOTE
                                THEN [b EXCEPT !.remote = b.remote \cup {u.Name}]
                                ELSE [b EXCEPT !.unknown = b.unknown \cup {u.Name}]
                       IN  IF c.user = Nil \/ RankWins(c.Type, t)
                           THEN [c EXCEPT !.user = u, !.Type = t]
                           ELSE c)
    IN  From(1, [total |-> {}, localX |-> {}, local |-> {}, remoteX |-> {},
                 remote |-> {}, unknown |-> {}, localRoot |-> FALSE,
                 remoteRoot |-> FALSE, user |-> Nil, Type |-> UNKNOWN])

\* (statistics that do not take an unknown session of root for a local one)
StatOfRootKnown(a, active) ==
    [Total      |-> Cardinality(a.total),
     LocalX     |-> Cardinality(a.localX),
     Local      |-> Cardinality(a.local),
     RemoteX    |-> Cardinality(a.remoteX),
     Remote     |-> Cardinality(a.remote),
     Unknown    |-> Cardinality(a.unknown),
     LocalRoot  |-> a.localRoot /\ RootName \notin a.unknown,
     RemoteRoot |-> a.remoteRoot,
     Active     |-> active]

\* (statistics that count the users of a display among the local users)
StatOfMerged(a, active) ==
    [Total      |-> Cardinality(a.total),
     LocalX     |-> Cardinality(a.localX),
     Local      |-> Cardinality(a.local \cup a.localX),
     RemoteX    |-> Cardinality(a.remoteX),
     Remote     |-> Cardinality(a.remote),
     Unknown    |-> Cardinality(a.unknown),
     LocalRoot  |-> a.localRoot,
     RemoteRoot |-> a.remoteRoot,
     Active     |-> active]

\* the LoginStat / UsersStat made of the loop's result a and the active
\* user's information
StatOf(a, active) ==
    [Total      |-> Cardinality(a.total),
     LocalX     |-> Cardinality(a.localX),
     Local      |-> Cardinality(a.local),
     RemoteX    |-> Cardinality(a.remoteX),
     Remote     |-> Cardinality(a.remote),
     Unknown    |-> Cardinality(a.unknown),
     LocalRoot  |-> a.localRoot,
     RemoteRoot |-> a.remoteRoot,
     Active     |-> active]

\* Users.GetLoginStat
GetLoginStat(users, proc, passwd) ==
    LET a == StatLoopBy([i \in 1..Len(users) |->
                            LoginType(users[i], proc)], users)
        r == IF a.user = Nil THEN [ok |-> FALSE]
             ELSE GetLoginInfo(users, a.user.Name, proc, passwd)
    IN  StatOf(a, IF r.ok THEN r.info ELSE Nil)

\* LoginStat{}: the statistics of a Login before its first pass
ZeroStat ==
    [Total |-> 0, LocalX |-> 0, Local |-> 0, RemoteX |-> 0, Remote |-> 0,
     Unknown |-> 0, LocalRoot |-> FALSE, RemoteRoot |-> FALSE, Active |-> Nil]

\* the (Name, TTY) keys of a list of users
KeysOf(users) == { << users[i].Name, users[i].TTY >> : i \in 1..Len(users) }

\* the names of a list of users or of login informations
NamesOf(list) == { list[i].Name : i \in 1..Len(list) }

\* findLoginLogout: the keys that came, the keys that went, and the new
\* set of logged keys
FindLoginLogout(logged, users) ==
    LET m == KeysOf(users)
    IN  [login  |-> m \ logged,
         logout |-> (logged \cup m) \ m,
         logged |-> (logged \cup m) \ ((logged \cup m) \ m)]

\* readUtmp, the loop over l.users: [ok, logins]; one LoginInfo for each
\* name, in the order of the names' first sessions; not ok when a lookup
\* fails
LoginInfos(users, proc, passwd) ==
    LET RECURSIVE From(_, _)
        From(i, logins) ==
            IF i > Len(users) THEN [ok |-> TRUE, logins |-> logins]
            ELSE LET r == GetLoginInfo(users, users[i].Name, proc, passwd)
                 IN  IF ~r.ok THEN [ok |-> FALSE, logins |-> << >>]
                     ELSE IF \E ix \in 1..Len(logins) :
                                 logins[ix].Name = r.info.Name
                     THEN From(i + 1,
                               [ix \in 1..Len(logins) |->
                                   IF logins[ix].Name = r.info.Name
                                   THEN r.info ELSE logins[ix]])
                     ELSE From(i + 1, Append(logins, r.info))
    IN  From(1, << >>)

\* ------------------------------------------------------------------------
\* pkg/utmp/users.go, the revision NewNotify is built on: Users,
\* GetUserType, GetUserLogon, GetUserFull, GetUsersStat
\* ------------------------------------------------------------------------

\* Users, one turn of the read loop: base after record u
UsersRecord(base, u, useEUID, proc) ==
    LET user == Str(u.User)
        tty  == Str(u.Line)
        ut   == << user, tty >>
        r    == GetUserByPID(proc, PID(u.PID))
        nu   == [Name |-> IF useEUID /\ r.ok THEN r.name ELSE user,
                 PID  |-> PID(u.PID),
                 TTY  |-> tty,
                 Host |-> Str(u.Host),
                 IP   |-> IPv4(u.AddrV6),
                 SID  |-> u.Session,
                 ID   |-> Str(u.ID),
                 Time |-> Time(u.TV)]
    IN  IF u.Type = USER_PROCESS
        THEN IF ut \in DOMAIN base /\ ~After(nu.Time, base[ut].Time)
             THEN base
             ELSE Put(base, ut, nu)
        ELSE IF u.Type = DEAD_PROCESS THEN Delete(base, ut)
        ELSE base

\* Users over a whole file: base after the records of recs
RECURSIVE UsersReplay(_, _, _, _)
UsersReplay(base, recs, useEUID, proc) ==
    IF recs = << >> THEN base
    ELSE UsersReplay(UsersRecord(base, Head(recs), useEUID, proc),
                     Tail(recs), useEUID, proc)

GetUserType(u) ==
    IF MatchX(u.Host) \/ MatchX(u.ID) \/ MatchX(u.TTY)
    THEN IF IPEmpty(u.IP) THEN LOCAL_X ELSE REMOTE_X
    ELSE IF IPEmpty(u.IP) /\ u.Host = << >> THEN LOCAL_T ELSE REMOTE

GetUserLogon(users, name) ==
    UserLoginBy([i \in 1..Len(users) |-> GetUserType(users[i])], users, name)

\* GetUserFull: [ok, info]
GetUserFull(users, name, passwd) ==
    LET r  == GetUserInfo(passwd, name)
        ul == GetUserLogon(users, name)
    IN  IF r.ok
        THEN [ok |-> TRUE,
              info |-> [Name |-> r.info.Name, Type |-> ul.Type,
                        Time |-> ul.Time, Logons |-> ul.Logons]]
        ELSE [ok |-> FALSE, info |-> [Name |-> << >>]]

\* NewNotify, the loop over users: [ok, list], one UserFull for each session
UserFulls(users, passwd) ==
    [ok   |-> \A i \in 1..Len(users) :
                  GetUserFull(users, users[i].Name, passwd).ok,
     list |-> [i \in 1..Len(users) |->
                  GetUserFull(users, users[i].Name, passwd).info]]

\* GetUsersStat: [panic, stat]; user.Name of the nil user of an empty list
\* is a nil pointer dereference
GetUsersStat(users, passwd) ==
    LET a == StatLoopBy([i \in 1..Len(users) |-> GetUserType(users[i])],
                        users)
    IN  IF a.user = Nil THEN [panic |-> TRUE, stat |-> ZeroStat]
        ELSE LET r == GetUserFull(users, a.user.Name, passwd)
             IN  [panic |-> FALSE,
                  stat  |-> StatOf(a, IF r.ok THEN r.info ELSE Nil)]

\* ------------------------------------------------------------------------
\* The records a file is made of
\* ------------------------------------------------------------------------

\* "a", "root" and the blank name
UserVals == { << >>, << 97 >>, RootName }

\* "tty1", "pts/0"
TtyVals == { << 116, 116, 121, 49 >>, << 112, 116, 115, 47, 48 >> }

\* "tty1", "ts/0": the terminal name suffixes, as wide as the ID field
IdVals == { << 116, 116, 121, 49 >>, << 116, 115, 47, 48 >> }

\* the suffix login writes for a terminal
IdOf(line) ==
    IF line = << 116, 116, 121, 49 >>
    THEN << 116, 116, 121, 49 >>
    ELSE << 116, 115, 47, 48 >>

\* process ids 1 and 2, little-endian
PidVals == { << 1, 0, 0, 0 >>, << 2, 0, 0, 0 >> }

\* where a login on a terminal comes from: the console "tty1" is local (no
\* host, no address), the pseudo terminal "pts/0" is a login from host "h",
\* address 127.0.0.1
HostAddrOf(line) ==
    IF line = << 116, 116, 121, 49 >>
    THEN [Host |-> << >>, Addr |-> 0]
    ELSE [Host |-> << 104 >>, Addr |-> 16777343]

TVVals == { [Sec |-> 1, Usec |-> 0], [Sec |-> 2, Usec |-> 0] }

Utmp(type, pid, line, id, user, ha, tv) ==
    [Type    |-> type,
     PID     |-> pid,
     Line    |-> Pad(line, LINESIZE),
     ID      |-> Pad(id, IDSIZE),
     User    |-> Pad(user, NAMESIZE),
     Host    |-> Pad(ha.Host, HOSTSIZE),
     Session |-> 0,
     TV      |-> tv,
     AddrV6  |-> << ha.Addr, 0, 0, 0 >>]

NoHostAddr == [Host |-> << >>, Addr |-> 0]

ZeroTV == [Sec |-> 0, Usec |-> 0]

UserRecs ==
    { Utmp(USER_PROCESS, p, l, IdOf(l), u, HostAddrOf(l), tv) :
        p \in PidVals, l \in TtyVals,
        u \in UserVals \ {<< >>}, tv \in TVVals }

\* the logout records: of a blank user or of "a", with the suffix of either
\* terminal
DeadRecs ==
    { Utmp(DEAD_PROCESS, p, l, i, u, NoHostAddr, ZeroTV) :
        p \in PidVals, l \in TtyVals, i \in IdVals,
        u \in UserVals \ {RootName} }

BootRec == Utmp(BOOT_TIME, << 0, 0, 0, 0 >>, << 126 >>, << 126, 126 >>,
                << 114, 101, 98, 111, 111, 116 >>, NoHostAddr, ZeroTV)

RunLvlRec == Utmp(RUN_LVL, << 53, 0, 0, 0 >>, << 126 >>, << 126, 126 >>,
                  << 114, 117, 110, 108, 118, 108 >>, NoHostAddr, ZeroTV)

Records == UserRecs \cup DeadRecs \cup {BootRec, RunLvlRec}

\* the process table: process 1 runs a shell as root, process 2 is gone
\* (its lookups fail)
ProcTable == [p \in {1} |-> [user |-> RootName, cmd |-> << 115, 104 >>]]

\* ------------------------------------------------------------------------
\* State
\* ------------------------------------------------------------------------

VARIABLES
    useEUID,    \* the useEUID argument
    proc,       \* the process table of the host
    tpc,        \* GetUsers: "off", "read" (in the read loop), "done"
    tables,     \* GetUsers: base, pbase, ibase
    before,     \* the tables before the record read last
    rec,        \* the fields of the record read last (NoRec before the first)
    nrec,       \* number of records read
    born,       \* history: [key, user] of the USER_PROCESS records read since
                \* the last BOOT_TIME record, key the recorded <<user, tty>>
                \* and user the User built from the record
    users,      \* the list GetUsers returned
    err,        \* whether GetUsers returned an error
    file,       \* the watched file: [recs, mtime], recs indices of FileRecs
    writes,     \* number of changes made to the watched file
    cpc,        \* the caller of the notifier: "off";
                \* of Login: "NewLoginRecv", "returned", "close1", "close2",
                \* "closed"; of vsnotify.New and NewNotify: "loop", "stopped",
                \* "cancel1", "cancel2", "cancelled"
    panicked,   \* the process has died of a panic
    built,      \* history: the events built, in order
    received,   \* history: the events the caller received, in order
    logged,     \* l.logged, NewNotify's logged
    lusers,     \* l.users, upd's users
    evt,        \* readUtmp's and upd's modTime, login, logout, logins, stat
    wpc,        \* watcherFn: "off", "stat", "decode", "storeLogins",
                \* "storeStat", "send", "select", "exited"
    evtClosed,  \* l.evtChan is closed
    wClosed,    \* l.watcher is closed
    events,     \* the fsnotify events not yet taken from l.watcher.Events
    logins,     \* l.logins
    stat,       \* l.stat
    vpc,        \* the goroutine of vsnotify.New: "off", "stat", "send",
                \* "select", "exited"
    vstat,      \* vsnotify.New's stat: [size, mtime]
    pstat,      \* its pstat, Nil at first
    done,       \* its done is closed
    vClosed,    \* its update is closed
    upc,        \* the goroutine of NewNotify: "off", "upd", "send", "recv",
                \* "exited"
    uClosed,    \* NewNotify's update is closed
    passes,     \* history: the (Name, TTY) key sets of the sessions of the
                \* last two decode passes that got their sessions, the
                \* earlier first ({} where there was none)
    readAt,     \* history: the modification time the file had when its
                \* records were last read for a decode pass (0: never)
    sessions,   \* a list of sessions (Users) given to the statistics
    spc,        \* its caller: "off", "edit" (the list is being made),
                \* "done" (the statistics of the list are taken)
    ltypes,     \* the LoginType of each session of the list
    lstat,      \* the GetLoginStat of the list
    ostat,      \* the GetUsersStat of the list: [panic, stat]
    rootOut,    \* history: the last session of root has been taken from
                \* the list
    ulogin,     \* the GetUserLogin of each name of the list
    data,       \* the bytes of the file GetUsers reads through Read
    pos,        \* the read offset in data
    rerr,       \* the error of the last Read: "nil", "EOF",
                \* "ErrUnexpectedEOF", "EIO"
    utmp,       \* the Utmp the last Read filled (NoUtmp before the first)
    arrays,     \* the arrays of LoginInfo made so far, by their number
    lref,       \* l.logins: the number of the array it is a slice of
    got,        \* the lists Login.GetUsers returned: [ref, ret, was, held],
                \* ref the array of the list; history: ret its elements
                \* when returned, was the snapshot stored then, held the
                \* elements its holder gave it
    stored,     \* history: the elements the last pass stored in l.logins
    src,        \* the character array handed to Str
    str         \* the string Str returned (NoStr before the call)

trackVars == << tpc, tables, before, rec, nrec, born, users, err >>

watchVars == << file, writes, cpc, panicked, built, received, logged, lusers,
                evt, wpc, evtClosed, wClosed, events, logins, stat, vpc,
                vstat, pstat, done, vClosed, upc, uClosed, readAt,
                passes >>

statVars == << sessions, spc, ltypes, lstat, ostat, rootOut, ulogin >>

fileVars == << data, pos, rerr, utmp >>

copyVars == << arrays, lref, got, stored >>

strVars == << src, str >>

\* what no notifier changes
fixedVars == << useEUID, proc, trackVars, statVars, fileVars, copyVars, strVars >>

vars == << useEUID, proc, trackVars, watchVars, statVars, fileVars,
          copyVars, strVars >>

\* the zero event
NoEvent ==
    [Time |-> 0, Login |-> {}, Logout |-> {}, Users |-> << >>,
     Stat |-> ZeroStat]

\* the state of the statistics where no list is being made
StatOff ==
    /\ sessions = << >>
    /\ spc = "off"
    /\ ltypes = << >>
    /\ lstat = ZeroStat
    /\ ostat = [panic |-> FALSE, stat |-> ZeroStat]
    /\ rootOut = FALSE
    /\ ulogin = << >>

\* the Utmp no Read has filled
NoUtmp == [Type |-> -1]

\* the state of the byte reader where no file is read through Read
ReadOff ==
    /\ data = << >>
    /\ pos = 0
    /\ rerr = "nil"
    /\ utmp = NoUtmp

\* the state of the lists of a Login where there is no Login
\* no call of Str on its own
NoStr == << 0 >>

StrOff ==
    /\ src = << >>
    /\ str = NoStr

CopyOff ==
    /\ arrays = << >>
    /\ lref = 0
    /\ got = << >>
    /\ stored = << >>

\* the state of the notifiers where none is running
WatchOff ==
    /\ file = [recs |-> << >>, mtime |-> 0]
    /\ writes = 0
    /\ cpc = "off"
    /\ panicked = FALSE
    /\ built = << >>
    /\ received = << >>
    /\ logged = {}
    /\ lusers = << >>
    /\ evt = NoEvent
    /\ wpc = "off"
    /\ evtClosed = FALSE
    /\ wClosed = FALSE
    /\ events = << >>
    /\ logins = << >>
    /\ stat = ZeroStat
    /\ vpc = "off"
    /\ vstat = Nil
    /\ pstat = Nil
    /\ done = FALSE
    /\ vClosed = FALSE
    /\ upc = "off"
    /\ uClosed = FALSE
    /\ readAt = 0
    /\ passes = << {}, {} >>

NoRec == [Type |-> -1]

\* what the read loop takes from a record: its kind and decoded fields
Fields(u) ==
    [Type |-> u.Type,
     User |-> Str(u.User),
     PID  |-> PID(u.PID),
     TTY  |-> Str(u.Line),
     ID   |-> Str(u.ID),
     Time |-> Time(u.TV)]

\* ------------------------------------------------------------------------
\* GetUsers as a process: one action per turn of the read loop
\* ------------------------------------------------------------------------

Init ==
    /\ useEUID \in BOOLEAN
    /\ proc = ProcTable
    /\ tpc = "read"
    /\ tables = EmptyTables
    /\ before = EmptyTables
    /\ rec = NoRec
    /\ nrec = 0
    /\ born = {}
    /\ users = << >>
    /\ err = FALSE
    /\ WatchOff
    /\ StatOff
    /\ ReadOff
    /\ CopyOff
    /\ StrOff

\* os.Open fails: return Users{}, err
OpenFail ==
    /\ tpc = "read"
    /\ nrec = 0
    /\ tpc' = "done"
    /\ err' = TRUE
    /\ UNCHANGED << useEUID, proc, tables, before, rec, nrec, born, users,
                   watchVars, statVars, fileVars, copyVars, strVars >>

\* Read returns a record: one turn of the loop
ReadRecord ==
    /\ tpc = "read"
    /\ nrec < MaxRecs
    /\ \E u \in Records :
        /\ rec' = Fields(u)
        /\ before' = tables
        /\ tables' = ProcessRecord(tables, u, useEUID, proc)
        /\ born' = IF u.Type = BOOT_TIME THEN {}
                   ELSE IF u.Type = USER_PROCESS
                   THEN born \cup {[key  |-> << Str(u.User), Str(u.Line) >>,
                                    user |-> NewUser(u, useEUID, proc)]}
                   ELSE born
    /\ nrec' = nrec + 1
    /\ UNCHANGED << useEUID, proc, tpc, users, err,
                   watchVars, statVars, fileVars, copyVars, strVars >>

\* Read fails with an error that is not the end of the data
ReadFail ==
    /\ tpc = "read"
    /\ tpc' = "done"
    /\ err' = TRUE
    /\ UNCHANGED << useEUID, proc, tables, before, rec, nrec, born, users,
                   watchVars, statVars, fileVars, copyVars, strVars >>

\* Read returns io.EOF or io.ErrUnexpectedEOF: map to slice, sort, return
ReadEOF ==
    /\ tpc = "read"
    /\ \E ks \in SortedKeyOrders(tables.base) :
        users' = UsersOf(tables.base, ks)
    /\ tpc' = "done"
    /\ UNCHANGED << useEUID, proc, tables, before, rec, nrec, born, err,
                   watchVars, statVars, fileVars, copyVars, strVars >>

Next == OpenFail \/ ReadRecord \/ ReadFail \/ ReadEOF

Spec == Init /\ [][Next]_vars

\* ------------------------------------------------------------------------
\* Properties of the session tracker
\* ------------------------------------------------------------------------

\* the record read last is a DEAD_PROCESS record with a blank user name
BlankLogout == rec.Type = DEAD_PROCESS /\ rec.User = << >>

\* the keys of the live sessions opened with terminal tty and process id pid
OpenedBy(base, tty, pid) ==
    { k \in DOMAIN base : base[k].TTY = tty /\ base[k].PID = pid }

\* C1: a DEAD_PROCESS record with a blank user name removes from the primary
\* table exactly the live session opened by the USER_PROCESS record with the
\* same (terminal, process id), and no session opened under another
\* process id.
C1_BlankLogoutAttribution ==
    BlankLogout =>
        LET gone == OpenedBy(before.base, rec.TTY, rec.PID)
        IN  tables.base = [k \in (DOMAIN before.base) \ gone |-> before.base[k]]

\* C2: a BOOT_TIME record empties the primary table and both indices; every
\* session of the tables and of the result was opened by a USER_PROCESS
\* record for its key that follows the last BOOT_TIME record, so no index
\* entry a later blank DEAD_PROCESS record resolves through is older than
\* the boot.
C2_BootClearsAll ==
    /\ rec.Type = BOOT_TIME => tables = EmptyTables
    /\ \A k \in DOMAIN tables.base :
         [key |-> k, user |-> tables.base[k]] \in born
    /\ \A tp \in DOMAIN tables.pbase :
         \E b \in born : b.user = tables.pbase[tp]
                         /\ tp = << b.user.TTY, b.user.PID >>
    /\ \A ti \in DOMAIN tables.ibase :
         \E b \in born : b.user = tables.ibase[ti]
                         /\ ti = << b.user.TTY, b.user.ID >>
    /\ \A i \in 1..Len(users) : \E b \in born : b.user = users[i]

\* C2 witness: a BOOT_TIME record was read while sessions were live and
\* indexed
C2_Witness ==
    /\ rec.Type = BOOT_TIME
    /\ DOMAIN before.base # {}
    /\ DOMAIN before.pbase # {}
    /\ DOMAIN before.ibase # {}

\* ------------------------------------------------------------------------
\* The notifiers: Login (api.go, login.go), vsnotify.New (vsnotify.go),
\* NewNotify (notify.go) and their callers
\* ------------------------------------------------------------------------

MaxWrites == 2

\* the user database knows "a" and "root"
Passwd == { << 97 >>, RootName }

\* what is appended to the watched file: a login of "a" on tty1, a login of
\* "g", a user the database does not know, on pts/0, and the logout records
\* of tty1 and of pts/0 with a blank user name
FileRecs ==
    << Utmp(USER_PROCESS, << 2, 0, 0, 0 >>, << 116, 116, 121, 49 >>,
            << 116, 116, 121, 49 >>, << 97 >>,
            HostAddrOf(<< 116, 116, 121, 49 >>), [Sec |-> 1, Usec |-> 0]),
       Utmp(USER_PROCESS, << 2, 0, 0, 0 >>, << 112, 116, 115, 47, 48 >>,
            << 116, 115, 47, 48 >>, << 103 >>,
            HostAddrOf(<< 112, 116, 115, 47, 48 >>), [Sec |-> 2, Usec |-> 0]),
       Utmp(DEAD_PROCESS, << 2, 0, 0, 0 >>, << 116, 116, 121, 49 >>,
            << 116, 116, 121, 49 >>, << >>, NoHostAddr, ZeroTV),
       Utmp(DEAD_PROCESS, << 2, 0, 0, 0 >>, << 112, 116, 115, 47, 48 >>,
            << 116, 115, 47, 48 >>, << >>, NoHostAddr, ZeroTV) >>

\* the records of the watched file
Contents == [i \in 1..Len(file.recs) |-> FileRecs[file.recs[i]]]

\* os.Stat of the watched file: Size and ModTime
FileStat == [size |-> Len(file.recs), mtime |-> file.mtime]

\* (a publisher that goes on without a receiver)
SkipSendPc == "select"

\* a send on an unbuffered channel is where the sender stays until a
\* receiver takes the value
SendPc == "send"

\* the state a notifier starts from: the file is empty or holds one login
WatchStart ==
    /\ useEUID = TRUE
    /\ proc = ProcTable
    /\ tpc = "off"
    /\ tables = EmptyTables
    /\ before = EmptyTables
    /\ rec = NoRec
    /\ nrec = 0
    /\ born = {}
    /\ users = << >>
    /\ err = FALSE
    /\ StatOff
    /\ ReadOff
    /\ CopyOff
    /\ StrOff
    /\ file \in { [recs |-> << >>, mtime |-> 1], [recs |-> << 1 >>, mtime |-> 1] }
    /\ writes = 0
    /\ panicked = FALSE
    /\ built = << >>
    /\ received = << >>
    /\ logged = {}
    /\ lusers = << >>
    /\ evtClosed = FALSE
    /\ wClosed = FALSE
    /\ events = << >>
    /\ logins = << >>
    /\ stat = ZeroStat
    /\ pstat = Nil
    /\ done = FALSE
    /\ vClosed = FALSE
    /\ uClosed = FALSE

\* NewLogin after go watcherFn(l): the caller waits in <-l.evtChan
InitLogin ==
    /\ WatchStart
    /\ cpc = "NewLoginRecv"
    /\ wpc = "stat"
    /\ vpc = "off"
    /\ upc = "off"
    /\ vstat = Nil
    /\ readAt = 0
    /\ passes = << {}, {} >>
    /\ evt = NoEvent

\* a writer appends a record to the file: fsnotify queues a Write event
FileWrite ==
    /\ cpc # "off"
    /\ writes < MaxWrites
    /\ \E r \in 1..Len(FileRecs) :
        file' = [recs |-> Append(file.recs, r), mtime |-> file.mtime + 1]
    /\ writes' = writes + 1
    /\ events' = IF wpc # "off" /\ ~wClosed THEN Append(events, "Write")
                 ELSE events
    /\ UNCHANGED << fixedVars, passes, readAt, cpc, panicked, built, received,
                    logged, lusers, evt, wpc, evtClosed, wClosed, logins,
                    stat, vpc, vstat, pstat, done, vClosed, upc, uClosed >>

\* the attributes of the file change: fsnotify queues a Chmod event
FileChmod ==
    /\ wpc # "off"
    /\ ~wClosed
    /\ writes < MaxWrites
    /\ writes' = writes + 1
    /\ events' = Append(events, "Chmod")
    /\ UNCHANGED << fixedVars, passes, readAt, file, cpc, panicked, built,
                    received, logged, lusers, evt, wpc, evtClosed, wClosed,
                    logins, stat, vpc, vstat, pstat, done, vClosed, upc,
                    uClosed >>

\* readUtmp, os.Stat: on an error the pass is over
WatcherStat ==
    /\ wpc = "stat"
    /\ ~panicked
    /\ \/ /\ wpc' = "select"
          /\ UNCHANGED evt
       \/ /\ evt' = [evt EXCEPT !.Time = file.mtime]
          /\ wpc' = "decode"
    /\ UNCHANGED << fixedVars, passes, readAt, file, writes, cpc, panicked, built, received,
                    logged, lusers, evtClosed, wClosed, events, logins, stat,
                    vpc, vstat, pstat, done, vClosed, upc, uClosed >>

\* readUtmp, GetUsers to the end of the lookup loop: on a read error or a
\* lookup error the pass is over
WatcherDecode ==
    /\ wpc = "decode"
    /\ ~panicked
    /\ \/ /\ lusers' = << >>
          /\ wpc' = "select"
          /\ UNCHANGED << logged, evt, readAt, passes >>
       \/ \E ks \in SortedKeyOrders(
                        Replay(EmptyTables, Contents, useEUID, proc).base) :
            LET base == Replay(EmptyTables, Contents, useEUID, proc).base
                us   == UsersOf(base, ks)
                f    == FindLoginLogout(logged, us)
                li   == LoginInfos(us, proc, Passwd)
            IN  /\ lusers' = us
                /\ logged' = f.logged
                /\ readAt' = file.mtime
                /\ passes' = << passes[2], KeysOf(us) >>
                /\ IF li.ok
                   THEN /\ evt' = [evt EXCEPT !.Login = f.login,
                                              !.Logout = f.logout,
                                              !.Users = li.logins]
                        /\ wpc' = "storeLogins"
                   ELSE /\ wpc' = "select"
                        /\ UNCHANGED evt
    /\ UNCHANGED << fixedVars, file, writes, cpc, panicked, built, received,
                    evtClosed, wClosed, events, logins, stat, vpc, vstat,
                    pstat, done, vClosed, upc, uClosed >>

\* readUtmp: l.logins is stored under loginsMx
WatcherStoreLogins ==
    /\ wpc = "storeLogins"
    /\ ~panicked
    /\ logins' = evt.Users
    /\ wpc' = "storeStat"
    /\ UNCHANGED << fixedVars, passes, readAt, file, writes, cpc, panicked, built, received,
                    logged, lusers, evt, evtClosed, wClosed, events, stat,
                    vpc, vstat, pstat, done, vClosed, upc, uClosed >>

\* readUtmp: l.stat is stored under statMx, the event is built
WatcherStoreStat ==
    /\ wpc = "storeStat"
    /\ ~panicked
    /\ stat' = GetLoginStat(lusers, proc, Passwd)
    /\ evt' = [evt EXCEPT !.Stat = stat']
    /\ built' = Append(built, evt')
    /\ wpc' = SendPc
    /\ UNCHANGED << fixedVars, passes, readAt, file, writes, cpc, panicked, received, logged,
                    lusers, evtClosed, wClosed, events, logins, vpc, vstat,
                    pstat, done, vClosed, upc, uClosed >>

\* l.evtChan <- LoginEvent{...} meets a receive: the one of NewLogin, which
\* then returns, or one of the caller on l.C()
WatcherSend ==
    /\ wpc = "send"
    /\ ~panicked
    /\ ~evtClosed
    /\ cpc \in {"NewLoginRecv", "returned"}
    /\ received' = Append(received, evt)
    /\ cpc' = "returned"
    /\ wpc' = "select"
    /\ UNCHANGED << fixedVars, passes, readAt, file, writes, panicked, built, logged, lusers,
                    evt, evtClosed, wClosed, events, logins, stat, vpc,
                    vstat, pstat, done, vClosed, upc, uClosed >>

\* l.evtChan <- LoginEvent{...} on the closed channel: panic
WatcherSendClosed ==
    /\ wpc = "send"
    /\ ~panicked
    /\ evtClosed
    /\ panicked' = TRUE
    /\ UNCHANGED << fixedVars, passes, readAt, file, writes, cpc, built, received, logged,
                    lusers, evt, wpc, evtClosed, wClosed, events, logins,
                    stat, vpc, vstat, pstat, done, vClosed, upc, uClosed >>

\* watcherFn, case evt, ok := <-l.watcher.Events with ok: a Write event
\* starts a pass
WatcherEvent ==
    /\ wpc = "select"
    /\ ~panicked
    /\ ~wClosed
    /\ events # << >>
    /\ events' = Tail(events)
    /\ wpc' = IF Head(events) = "Write" THEN "stat" ELSE "select"
    /\ UNCHANGED << fixedVars, passes, readAt, file, writes, cpc, panicked, built, received,
                    logged, lusers, evt, evtClosed, wClosed, logins, stat,
                    vpc, vstat, pstat, done, vClosed, upc, uClosed >>

\* watcherFn, a channel of the watcher is closed: break For, l.wg.Done()
WatcherExit ==
    /\ wpc = "select"
    /\ ~panicked
    /\ wClosed
    /\ wpc' = "exited"
    /\ UNCHANGED << fixedVars, passes, readAt, file, writes, cpc, panicked, built, received,
                    logged, lusers, evt, evtClosed, wClosed, events, logins,
                    stat, vpc, vstat, pstat, done, vClosed, upc, uClosed >>

\* Close: close(l.evtChan)
CloseEvtChan ==
    /\ cpc = "returned"
    /\ ~panicked
    /\ evtClosed' = TRUE
    /\ cpc' = "close1"
    /\ UNCHANGED << fixedVars, passes, readAt, file, writes, panicked, built, received,
                    logged, lusers, evt, wpc, wClosed, events, logins, stat,
                    vpc, vstat, pstat, done, vClosed, upc, uClosed >>

\* Close: l.watcher.Close(), the channels of the watcher are closed
CloseWatcher ==
    /\ cpc = "close1"
    /\ ~panicked
    /\ wClosed' = TRUE
    /\ events' = << >>
    /\ cpc' = "close2"
    /\ UNCHANGED << fixedVars, passes, readAt, file, writes, panicked, built, received,
                    logged, lusers, evt, wpc, evtClosed, logins, stat, vpc,
                    vstat, pstat, done, vClosed, upc, uClosed >>

\* Close: l.wg.Wait() returns
CloseWait ==
    /\ cpc = "close2"
    /\ ~panicked
    /\ wpc = "exited"
    /\ cpc' = "closed"
    /\ UNCHANGED << fixedVars, passes, readAt, file, writes, panicked, built, received,
                    logged, lusers, evt, wpc, evtClosed, wClosed, events,
                    logins, stat, vpc, vstat, pstat, done, vClosed, upc,
                    uClosed >>

\* the steps of Login and of its caller
LoginStep ==
    \/ WatcherStat \/ WatcherDecode \/ WatcherStoreLogins
    \/ WatcherStoreStat \/ WatcherSend \/ WatcherSendClosed
    \/ WatcherEvent \/ WatcherExit
    \/ CloseEvtChan \/ CloseWatcher \/ CloseWait

\* the runer of gousers after vsnotify.New: the goroutine starts its loop
\* with the stat New took, the caller is in its select; fn has read the file
\* as it is
InitPoll ==
    /\ WatchStart
    /\ cpc = "loop"
    /\ wpc = "off"
    /\ vpc = "stat"
    /\ upc = "off"
    /\ vstat = FileStat
    /\ readAt = file.mtime
    /\ passes = << {}, {} >>
    /\ evt = NoEvent

\* a caller of NewNotify after it returned: both goroutines run, the first
\* call of upd has the modification time NewNotify took
InitNotify ==
    /\ WatchStart
    /\ cpc = "loop"
    /\ wpc = "off"
    /\ vpc = "stat"
    /\ upc = "upd"
    /\ vstat = FileStat
    /\ readAt = 0
    /\ passes = << {}, {} >>
    /\ evt = [NoEvent EXCEPT !.Time = file.mtime]

\* (a poller that reports at every tick)
ChangedAlways(st, pst) == TRUE

\* vsnotify.New, the test of a turn: there is a stat of the turn before and
\* the size or the modification time differs from it
Changed(st, pst) ==
    pst # Nil /\ (st.size # pst.size \/ st.mtime # pst.mtime)

\* vsnotify.New, the loop body to the select: os.Stat; on an error break,
\* close(update), wg.Done(); a change of size or time is to be sent
PollStat ==
    /\ vpc = "stat"
    /\ ~panicked
    /\ \/ /\ vClosed' = TRUE
          /\ vpc' = "exited"
          /\ UNCHANGED << vstat, built >>
       \/ /\ vstat' = FileStat
          /\ IF Changed(vstat', pstat)
             THEN /\ vpc' = SendPc
                  /\ built' = IF upc = "off" THEN Append(built, vstat'.mtime)
                              ELSE built
             ELSE /\ vpc' = "select"
                  /\ UNCHANGED built
          /\ UNCHANGED vClosed
    /\ UNCHANGED << fixedVars, passes, readAt, file, writes, cpc, panicked, received, logged,
                    lusers, evt, wpc, evtClosed, wClosed, events, logins,
                    stat, pstat, done, upc, uClosed >>

\* update <- stat.ModTime() meets the receive of the runer's select, and
\* the runer calls fn, which reads the file
PollSend ==
    /\ vpc = "send"
    /\ ~panicked
    /\ upc = "off"
    /\ cpc = "loop"
    /\ received' = Append(received, vstat.mtime)
    /\ readAt' = file.mtime
    /\ vpc' = "select"
    /\ UNCHANGED << fixedVars, passes, file, writes, cpc, panicked, built, logged,
                    lusers, evt, wpc, evtClosed, wClosed, events, logins,
                    stat, vstat, pstat, done, vClosed, upc, uClosed >>

\* update <- stat.ModTime() meets modTime, ok = <-n.Update of NewNotify
PollSendNotify ==
    /\ vpc = "send"
    /\ ~panicked
    /\ upc = "recv"
    /\ evt' = [evt EXCEPT !.Time = vstat.mtime]
    /\ upc' = "upd"
    /\ vpc' = "select"
    /\ UNCHANGED << fixedVars, passes, readAt, file, writes, cpc, panicked, built, received,
                    logged, lusers, wpc, evtClosed, wClosed, events, logins,
                    stat, vstat, pstat, done, vClosed, uClosed >>

\* select, case <-tick: the next turn, pstat = stat
PollTick ==
    /\ vpc = "select"
    /\ ~panicked
    /\ pstat' = vstat
    /\ vpc' = "stat"
    /\ UNCHANGED << fixedVars, passes, readAt, file, writes, cpc, panicked, built, received,
                    logged, lusers, evt, wpc, evtClosed, wClosed, events,
                    logins, stat, vstat, done, vClosed, upc, uClosed >>

\* select, case <-done: stop, close(update), wg.Done()
PollDone ==
    /\ vpc = "select"
    /\ ~panicked
    /\ done
    /\ pstat' = vstat
    /\ vClosed' = TRUE
    /\ vpc' = "exited"
    /\ UNCHANGED << fixedVars, passes, readAt, file, writes, cpc, panicked, built, received,
                    logged, lusers, evt, wpc, evtClosed, wClosed, events,
                    logins, stat, vstat, done, upc, uClosed >>

\* NewNotify, upd to the send: Users fails, upd returns false and the
\* goroutine closes update and ends; a lookup fails, upd returns true;
\* GetUsersStat panics; or the event is built
NotifyUpd ==
    /\ upc = "upd"
    /\ ~panicked
    /\ \/ /\ uClosed' = TRUE
          /\ upc' = "exited"
          /\ UNCHANGED << logged, lusers, evt, built, panicked, readAt,
                          passes >>
       \/ \E ks \in SortedKeyOrders(
                        UsersReplay(<< >>, Contents, useEUID, proc)) :
            LET base == UsersReplay(<< >>, Contents, useEUID, proc)
                us   == UsersOf(base, ks)
                f    == FindLoginLogout(logged, us)
                li   == UserFulls(us, Passwd)
                st   == GetUsersStat(us, Passwd)
            IN  /\ lusers' = us
                /\ logged' = f.logged
                /\ readAt' = file.mtime
                /\ passes' = << passes[2], KeysOf(us) >>
                /\ UNCHANGED uClosed
                /\ IF ~li.ok
                   THEN /\ upc' = "recv"
                        /\ UNCHANGED << evt, built, panicked >>
                   ELSE IF st.panic
                   THEN /\ panicked' = TRUE
                        /\ UNCHANGED << evt, built, upc >>
                   ELSE /\ evt' = [Time |-> evt.Time, Login |-> f.login,
                                   Logout |-> f.logout, Users |-> li.list,
                                   Stat |-> st.stat]
                        /\ built' = Append(built, evt')
                        /\ upc' = SendPc
                        /\ UNCHANGED panicked
    /\ UNCHANGED << fixedVars, file, writes, cpc, received, wpc, evtClosed,
                    wClosed, events, logins, stat, vpc, vstat, pstat, done,
                    vClosed >>

\* update <- Event{...} meets a receive of the caller
NotifySend ==
    /\ upc = "send"
    /\ ~panicked
    /\ cpc = "loop"
    /\ received' = Append(received, evt)
    /\ upc' = "recv"
    /\ UNCHANGED << fixedVars, passes, readAt, file, writes, cpc, panicked, built, logged,
                    lusers, evt, wpc, evtClosed, wClosed, events, logins,
                    stat, vpc, vstat, pstat, done, vClosed, uClosed >>

\* modTime, ok = <-n.Update with n.Update closed: close(update), wg.Done()
NotifyEnd ==
    /\ upc = "recv"
    /\ ~panicked
    /\ vClosed
    /\ uClosed' = TRUE
    /\ upc' = "exited"
    /\ UNCHANGED << fixedVars, passes, readAt, file, writes, cpc, panicked, built, received,
                    logged, lusers, evt, wpc, evtClosed, wClosed, events,
                    logins, stat, vpc, vstat, pstat, done, vClosed >>

\* the caller leaves its receive loop (Ctrl+C)
CtrlC ==
    /\ cpc = "loop"
    /\ ~panicked
    /\ cpc' = "stopped"
    /\ UNCHANGED << fixedVars, passes, readAt, file, writes, panicked, built, received,
                    logged, lusers, evt, wpc, evtClosed, wClosed, events,
                    logins, stat, vpc, vstat, pstat, done, vClosed, upc,
                    uClosed >>

\* Cancel of vsnotify.New: close(done)
CancelDone ==
    /\ cpc = "stopped"
    /\ ~panicked
    /\ done' = TRUE
    /\ cpc' = "cancel1"
    /\ UNCHANGED << fixedVars, passes, readAt, file, writes, panicked, built, received,
                    logged, lusers, evt, wpc, evtClosed, wClosed, events,
                    logins, stat, vpc, vstat, pstat, vClosed, upc, uClosed >>

\* Cancel of vsnotify.New: wg.Wait() returns; Cancel of NewNotify goes on
\* to its own wg.Wait()
CancelWait ==
    /\ cpc = "cancel1"
    /\ ~panicked
    /\ vpc = "exited"
    /\ cpc' = IF upc = "off" THEN "cancelled" ELSE "cancel2"
    /\ UNCHANGED << fixedVars, passes, readAt, file, writes, panicked, built, received,
                    logged, lusers, evt, wpc, evtClosed, wClosed, events,
                    logins, stat, vpc, vstat, pstat, done, vClosed, upc,
                    uClosed >>

\* Cancel of NewNotify: wg.Wait() returns
CancelWaitNotify ==
    /\ cpc = "cancel2"
    /\ ~panicked
    /\ upc = "exited"
    /\ cpc' = "cancelled"
    /\ UNCHANGED << fixedVars, passes, readAt, file, writes, panicked, built, received,
                    logged, lusers, evt, wpc, evtClosed, wClosed, events,
                    logins, stat, vpc, vstat, pstat, done, vClosed, upc,
                    uClosed >>

\* the steps of the polling notifiers and of their caller
PollStep ==
    \/ PollStat \/ PollSend \/ PollSendNotify \/ PollTick \/ PollDone
    \/ NotifyUpd \/ NotifySend \/ NotifyEnd
    \/ CtrlC \/ CancelDone \/ CancelWait \/ CancelWaitNotify

\* a step of a notifier or of its caller
ProgramStep == LoginStep \/ PollStep

WatchInit == InitLogin \/ InitPoll \/ InitNotify

WatchNext == FileWrite \/ FileChmod \/ ProgramStep

SpecWatch == WatchInit /\ [][WatchNext]_vars

\* ------------------------------------------------------------------------
\* Properties of the notifiers
\* ------------------------------------------------------------------------

\* C3: NewLogin always returns, and only after the watcher goroutine has
\* completed one full pass, so that GetUsers and GetStat called right after
\* it return the result of that pass; also when the first pass fails.
\* As a state property: once the first call of readUtmp is over NewLogin no
\* longer waits; NewLogin has returned only after an event was built; and
\* until the next pass stores anything the stored list and statistics are
\* those of the first event.
C3_NewLoginReturns ==
    /\ (wpc \in {"select", "exited"} => cpc # "NewLoginRecv")
    /\ (wpc # "off" /\ cpc # "NewLoginRecv" => Len(built) >= 1)
    /\ (cpc = "returned" /\ Len(built) = 1
            /\ wpc \in {"select", "stat", "decode"}
          => logins = built[1].Users /\ stat = built[1].Stat)

\* C4: a call of Login.Close returns, and when it has returned the watcher
\* goroutine has exited, for every interleaving of Close with a pass of the
\* goroutine. As a state property: while Close is under way some step of
\* the program is possible, and after Close the goroutine has exited.
C4_CloseReturns ==
    /\ (cpc \in {"close1", "close2"} => ENABLED LoginStep)
    /\ (cpc = "closed" => wpc = "exited")

\* C5: once Cancel of a polling notifier is called the notifier reaches its
\* closed state: Cancel returns, every goroutine has exited and Update is
\* closed, even if the caller stopped receiving while a notification was
\* pending. As a state property: while Cancel is under way (and the process
\* has not died) some step of the program is possible, and after Cancel the
\* goroutines have exited and the channels are closed.
C5_CancelCloses ==
    /\ (cpc \in {"cancel1", "cancel2"} /\ ~panicked => ENABLED PollStep)
    /\ (cpc = "cancelled"
          => /\ vpc = "exited" /\ vClosed
             /\ (upc # "off" => upc = "exited" /\ uClosed))

\* C6: once Login.Close has been called the watcher goroutine never tries to
\* publish an event: it is never at its send with l.evtChan closed.
C6_NoSendAfterClose == ~(evtClosed /\ wpc = "send")

\* C7: in every notifier a failure to stat or read the file does not end the
\* notifier: a goroutine ends and a channel of events is closed only after
\* the caller has asked for it.
C7_FailureKeepsNotifier ==
    /\ (vpc = "exited" \/ vClosed => done)
    /\ (upc = "exited" \/ uClosed => done)
    /\ (wpc = "exited" => wClosed)

\* some session of the list has a name the user database does not know
UnknownName(us) == \E i \in 1..Len(us) : us[i].Name \notin Passwd

\* C8: when the lookup of the name of some session fails during a pass, the
\* pass is not aborted: the stored list and statistics are those of the
\* pass and an event of the pass is published. As a state property: when a
\* pass over sessions with an unknown name is over, the stored snapshot
\* counts the users of that pass and the event built last is of that pass.
C8_LookupFailureKeepsPass ==
    /\ (wpc = "select" /\ UnknownName(lusers)
          => /\ stat.Total = Cardinality(NamesOf(lusers))
             /\ Len(logins) = Cardinality(NamesOf(lusers))
             /\ built # << >>
             /\ built[Len(built)].Stat.Total = Cardinality(NamesOf(lusers)))
    /\ (upc = "recv" /\ UnknownName(lusers)
          => /\ built # << >>
             /\ built[Len(built)].Stat.Total = Cardinality(NamesOf(lusers)))

\* C9: whenever a reader can run (NewLogin has returned), the list GetUsers
\* returns and the statistics GetStat returns are those of one and the same
\* pass.
C9_SameSnapshot ==
    cpc = "returned"
      => \E i \in 1..Len(built) :
            logins = built[i].Users /\ stat = built[i].Stat

IsPrefix(s, t) == Len(s) <= Len(t) /\ SubSeq(t, 1, Len(s)) = s

\* where the goroutine that publishes to the caller is
PublisherPc ==
    IF wpc # "off" THEN wpc ELSE IF upc # "off" THEN upc ELSE vpc

\* C10: delivery is synchronous and lossless: the events received are the
\* events built, in order and with none left out; at most one event is
\* built and not yet received, and while there is one the publishing
\* goroutine stays at its send (it decodes nothing and builds nothing).
C10_LosslessDelivery ==
    /\ IsPrefix(received, built)
    /\ Len(built) <= Len(received) + 1
    /\ (Len(built) > Len(received) => PublisherPc = "send")

\* an event waits for the caller, who has received one before, while the
\* file has changed again
C10_Witness ==
    /\ Len(received) >= 1
    /\ Len(built) = Len(received) + 1
    /\ PublisherPc = "send"
    /\ ~panicked
    /\ file.mtime > (IF wpc = "off" /\ upc = "off" THEN built[Len(built)]
                     ELSE built[Len(built)].Time)

PollAtRest ==
    /\ vpc = "select"
    /\ pstat = FileStat
    /\ vstat = FileStat
    /\ upc \in {"off", "recv"}
    /\ cpc = "loop"
    /\ ~panicked
    /\ built = received
    /\ \A i \in 1..Len(file.recs) : file.recs[i] # 2

\* C12: the polling notifier never misses a change: every change of the
\* file made after the data of the first pass was read is followed by an
\* event whose data was read after the change. As a state property: when
\* the notifier is at rest (so that no event will come until the file
\* changes again), the data decoded last was read from the file as it is
\* now.
C12_NoMissedChange == PollAtRest => readAt = file.mtime

\* ------------------------------------------------------------------------
\* The classification and the statistics of a list of sessions:
\* User.LoginType, Users.GetLoginStat, GetUsersStat as functions of a list
\* that logins and logouts make
\* ------------------------------------------------------------------------

MaxSess == 3

\* the process table of a host with a remote desktop: process 1 runs
\* "/xrdp-sesman" and process 3 "sh", process 2 is gone
XProcTable ==
    [p \in {1, 3} |->
        IF p = 1 THEN [user |-> RootName, cmd |-> << 47 >> \o XRDP_CMD]
                 ELSE [user |-> RootName, cmd |-> << 115, 104 >>]]

\* the names of the sessions: "a", "b", "root"
SessNames == { << 97 >>, << 98 >>, RootName }

\* the records of the logins, of time 1 but for the second:
\* the console "tty1"; "pts/0" from host "h", address 127.0.0.1, of time 2;
\* the display ":0" with no address, of process 1, 2 or 3;
\* "pts/0" with the suffix ":1" from host "h", address 127.0.0.1;
\* and, of "b" only, "tty1" from host "h" with no address and "tty1" with
\* no host and the address 127.0.0.1
SessRecs ==
    { Utmp(USER_PROCESS, << 2, 0, 0, 0 >>, << 116, 116, 121, 49 >>,
           << 116, 116, 121, 49 >>, << 98 >>, ha, [Sec |-> 1, Usec |-> 0])
        : ha \in { [Host |-> << 104 >>, Addr |-> 0],
                   [Host |-> << >>, Addr |-> 16777343] } }
    \cup
    { Utmp(USER_PROCESS, << 2, 0, 0, 0 >>, << 116, 116, 121, 49 >>,
           << 116, 116, 121, 49 >>, n, NoHostAddr, [Sec |-> 1, Usec |-> 0])
        : n \in SessNames }
    \cup
    { Utmp(USER_PROCESS, << 2, 0, 0, 0 >>, << 112, 116, 115, 47, 48 >>,
           << 116, 115, 47, 48 >>, n,
           [Host |-> << 104 >>, Addr |-> 16777343], [Sec |-> 2, Usec |-> 0])
        : n \in SessNames }
    \cup
    { Utmp(USER_PROCESS, << p, 0, 0, 0 >>, << 58, 48 >>, << 58, 48 >>, n,
           NoHostAddr, [Sec |-> 1, Usec |-> 0])
        : n \in SessNames, p \in {1, 2, 3} }
    \cup
    { Utmp(USER_PROCESS, << 2, 0, 0, 0 >>, << 112, 116, 115, 47, 48 >>,
           << 58, 49 >>, n,
           [Host |-> << 104 >>, Addr |-> 16777343], [Sec |-> 1, Usec |-> 0])
        : n \in SessNames }

\* the sessions of these records
SessVals == { NewUser(u, FALSE, XProcTable) : u \in SessRecs }

\* the types of the sessions of a list
TypesOf(list, pr) == [i \in 1..Len(list) |-> LoginType(list[i], pr)]

\* the list without its i-th element
Without(list, i) ==
    [k \in 1..(Len(list) - 1) |-> IF k < i THEN list[k] ELSE list[k + 1]]

\* a list is to be made on the host with the remote desktop
InitStat ==
    /\ useEUID = FALSE
    /\ proc = XProcTable
    /\ tpc = "off"
    /\ tables = EmptyTables
    /\ before = EmptyTables
    /\ rec = NoRec
    /\ nrec = 0
    /\ born = {}
    /\ users = << >>
    /\ err = FALSE
    /\ WatchOff
    /\ ReadOff
    /\ CopyOff
    /\ StrOff
    /\ sessions = << >>
    /\ spc = "edit"
    /\ ltypes = << >>
    /\ lstat = ZeroStat
    /\ ostat = [panic |-> FALSE, stat |-> ZeroStat]
    /\ rootOut = FALSE
    /\ ulogin = << >>

\* a login: a session joins the list
AddSession ==
    /\ spc = "edit"
    /\ Len(sessions) < MaxSess
    /\ \E u \in SessVals :
        /\ sessions' = Append(sessions, u)
        /\ rootOut' = IF u.Name = RootName THEN FALSE ELSE rootOut
    /\ UNCHANGED << copyVars, strVars, fileVars, useEUID, proc, trackVars, watchVars, spc,
                    ltypes, lstat, ostat, ulogin >>

\* a logout: a session leaves the list
RemoveSession ==
    /\ spc = "edit"
    /\ \E i \in 1..Len(sessions) :
        /\ sessions' = Without(sessions, i)
        /\ rootOut' = IF sessions[i].Name = RootName
                      THEN RootName \notin NamesOf(sessions')
                      ELSE rootOut
    /\ UNCHANGED << copyVars, strVars, fileVars, useEUID, proc, trackVars, watchVars, spc,
                    ltypes, lstat, ostat, ulogin >>

\* the sessions of the list are classified and its statistics taken
TakeStat ==
    /\ spc = "edit"
    /\ ltypes' = TypesOf(sessions, proc)
    /\ lstat' = GetLoginStat(sessions, proc, Passwd \cup SessNames)
    /\ ostat' = GetUsersStat(sessions, Passwd \cup SessNames)
    /\ ulogin' = [n \in NamesOf(sessions) |->
                    GetUserLogin(sessions, n, proc)]
    /\ spc' = "done"
    /\ UNCHANGED << copyVars, strVars, fileVars, useEUID, proc, trackVars, watchVars, sessions,
                    rootOut >>

StatNext == AddSession \/ RemoveSession \/ TakeStat

SpecStat == InitStat /\ [][StatNext]_vars

\* ------------------------------------------------------------------------
\* Properties of the classification and of the statistics
\* ------------------------------------------------------------------------

\* C13: root sessions are always preferred for the active session: when
\* some session of the list belongs to root, the active user of the
\* statistics (of GetLoginStat and of GetUsersStat) is root, whatever the
\* position and the type of the other sessions.
C13_RootPreferred ==
    spc = "done" /\ RootName \in NamesOf(sessions)
      => /\ lstat.Active # Nil
         /\ lstat.Active.Name = RootName
         /\ ~ostat.panic
         /\ ostat.stat.Active # Nil
         /\ ostat.stat.Active.Name = RootName

\* the session has the mark ":N" of a display in its host, suffix or
\* terminal
HasDisplay(u) == MatchX(u.Host) \/ MatchX(u.ID) \/ MatchX(u.TTY)

\* C14: LoginType is REMOTE_X for every session with the mark of a display
\* and a remote address, and it is never UNKNOWN for a session.
C14_RemoteDisplay ==
    spc = "done"
      => \A i \in 1..Len(sessions) :
            /\ ltypes[i] # UNKNOWN
            /\ (HasDisplay(sessions[i]) /\ ~IPEmpty(sessions[i].IP)
                  => ltypes[i] = REMOTE_X)

\* C15: the classification is a function of host, suffix, terminal and
\* address: two sessions that agree in the four classify alike, whatever
\* their process ids and whatever the lookup of the command line gives.
C15_FourFields ==
    spc = "done"
      => \A i, j \in 1..Len(sessions) :
            (/\ sessions[i].Host = sessions[j].Host
             /\ sessions[i].ID = sessions[j].ID
             /\ sessions[i].TTY = sessions[j].TTY
             /\ sessions[i].IP = sessions[j].IP)
              => ltypes[i] = ltypes[j]

\* C16: for a session with the mark of a display and no address, LoginType
\* is REMOTE_X exactly when the lookup of the command line of its process
\* succeeds and the command line matches XRDP_CMD, and LOCAL_X in every
\* other case, every failure of the lookup included.
C16_DisplayNoAddress ==
    spc = "done"
      => \A i \in 1..Len(sessions) :
            HasDisplay(sessions[i]) /\ IPEmpty(sessions[i].IP)
              => IF /\ sessions[i].PID \in DOMAIN proc
                    /\ MatchRDP(proc[sessions[i].PID].cmd)
                 THEN ltypes[i] = REMOTE_X
                 ELSE ltypes[i] = LOCAL_X

\* a session of the remote desktop and a session whose process is gone are
\* classified
C16_Witness ==
    /\ spc = "done"
    /\ \E i \in 1..Len(sessions) :
          /\ HasDisplay(sessions[i]) /\ IPEmpty(sessions[i].IP)
          /\ sessions[i].PID \notin DOMAIN proc
          /\ ltypes[i] = LOCAL_X
    /\ \E i \in 1..Len(sessions) :
          /\ HasDisplay(sessions[i]) /\ IPEmpty(sessions[i].IP)
          /\ sessions[i].PID \in DOMAIN proc
          /\ ltypes[i] = REMOTE_X

\* the names other than root that have a session of type t in the list
NamesOfType(t) ==
    { n \in NamesOf(sessions) \ {RootName} :
        \E i \in 1..Len(sessions) : sessions[i].Name = n /\ ltypes[i] = t }

\* C17: each of the counts LocalX, Local, RemoteX and Remote of GetLoginStat
\* is the number of the distinct names other than root that have a session
\* of that type: a user with several sessions of one type counts once and
\* the sessions of root count in none.
C17_CategoryCounts ==
    spc = "done"
      => /\ lstat.LocalX = Cardinality(NamesOfType(LOCAL_X))
         /\ lstat.Local = Cardinality(NamesOfType(LOCAL_T))
         /\ lstat.RemoteX = Cardinality(NamesOfType(REMOTE_X))
         /\ lstat.Remote = Cardinality(NamesOfType(REMOTE))

\* a user has two sessions of one type, and root has a session of that type
\* too: the count is one
C17_Witness ==
    /\ spc = "done"
    /\ \E i, j, k \in 1..Len(sessions) :
          /\ i # j
          /\ sessions[i].Name = sessions[j].Name
          /\ sessions[i].Name # RootName
          /\ sessions[k].Name = RootName
          /\ ltypes[i] = LOCAL_X /\ ltypes[j] = LOCAL_X /\ ltypes[k] = LOCAL_X
    /\ lstat.LocalX = 1

\* the types of the sessions of root in the list
RootTypes ==
    { ltypes[i] : i \in { k \in 1..Len(sessions) :
                            sessions[k].Name = RootName } }

C19_SameOrder ==
    tpc = "done" /\ ~err
      => \A ks \in SortedKeyOrders(tables.base) :
            UsersOf(tables.base, ks) = users

\* C20: the list GetUsers returns is in ascending order of time (no element
\* is after its successor) and holds exactly the sessions left in the
\* primary table, each once.
C20_SortedResult ==
    tpc = "done" /\ ~err
      => /\ \A i \in 1..(Len(users) - 1) :
              ~After(users[i].Time, users[i + 1].Time)
         /\ Len(users) = Cardinality(DOMAIN tables.base)
         /\ \E ks \in [1..Len(users) -> DOMAIN tables.base] :
              /\ \A i, j \in 1..Len(users) : i # j => ks[i] # ks[j]
              /\ \A i \in 1..Len(users) : users[i] = tables.base[ks[i]]

\* a list of sessions of different times is returned, read in the other
\* order of time
C20_Witness ==
    /\ tpc = "done"
    /\ ~err
    /\ Len(users) >= 2
    /\ Before(users[1].Time, users[Len(users)].Time)
    /\ rec.Type = USER_PROCESS
    /\ rec.Time = users[1].Time

\* ------------------------------------------------------------------------
\* utmp.go: Read, the Utmp struct as binary.Read decodes it from a file
\* ------------------------------------------------------------------------

\* number of whole records of a file read through Read
MaxBlocks == 2

\* (an exit status of two 32 bit values)
ExitStatusWide == 4 + 4

\* binary size of ExitStatus: two int16
ExitStatusSize == 2 + 2

\* binary size of TimeVal: two int32
TimeValSize == 4 + 4

\* the fields of Utmp in the order of their declaration, each with the
\* binary size of its Go type
UtmpLayout ==
    << [name |-> "Type",        size |-> 2],
       [name |-> "Pad0_unused", size |-> 2],
       [name |-> "PID",         size |-> 4],
       [name |-> "Line",        size |-> LINESIZE],
       [name |-> "ID",          size |-> IDSIZE],
       [name |-> "User",        size |-> NAMESIZE],
       [name |-> "Host",        size |-> HOSTSIZE],
       [name |-> "Exit",        size |-> ExitStatusSize],
       [name |-> "Session",     size |-> 4],
       [name |-> "TV",          size |-> TimeValSize],
       [name |-> "AddrV6",      size |-> 4 * 4],
       [name |-> "Pad1_unused", size |-> 20] >>

\* binary.Read takes the fields one after the other: the number of bytes
\* before field k
RECURSIVE OffsetOf(_)
OffsetOf(k) == IF k = 1 THEN 0 ELSE OffsetOf(k - 1) + UtmpLayout[k - 1].size

\* binary.Size of Utmp
UtmpSize == OffsetOf(Len(UtmpLayout) + 1)

\* little-endian int16 of two bytes
Int16(b) == b[1] + 256 * (IF b[2] >= 128 THEN b[2] - 256 ELSE b[2])

\* little-endian int32 of four bytes
Int32(b) ==
    b[1] + 256 * b[2] + 65536 * b[3]
         + 16777216 * (IF b[4] >= 128 THEN b[4] - 256 ELSE b[4])

\* the bytes of field k in the record bytes b
Field(b, k) == SubSeq(b, OffsetOf(k) + 1, OffsetOf(k) + UtmpLayout[k].size)

\* the Utmp binary.Read fills from the bytes b; an int8 of a character
\* array is kept as the byte Str turns it into
Decode(b) ==
    [Type        |-> Int16(Field(b, 1)),
     Pad0_unused |-> Field(b, 2),
     PID         |-> Field(b, 3),
     Line        |-> Field(b, 4),
     ID          |-> Field(b, 5),
     User        |-> Field(b, 6),
     Host        |-> Field(b, 7),
     Exit        |-> [Termination |-> Int16(SubSeq(Field(b, 8), 1, 2)),
                      Exit        |-> Int16(SubSeq(Field(b, 8), 3, 4))],
     Session     |-> Int32(Field(b, 9)),
     TV          |-> [Sec  |-> Int32(SubSeq(Field(b, 10), 1, 4)),
                      Usec |-> Int32(SubSeq(Field(b, 10), 5, 8))],
     AddrV6      |-> [i \in 1..4 |->
                        Int32(SubSeq(Field(b, 11), 4 * i - 3, 4 * i))],
     Pad1_unused |-> Field(b, 12)]

\* Read at offset p of the bytes d: binary.Read reads binary.Size bytes
\* with io.ReadFull, which fails with io.EOF when no byte is left and with
\* io.ErrUnexpectedEOF when fewer bytes are left than it was asked for
Read(d, p) ==
    LET rest == Len(d) - p
    IN  IF rest = 0
        THEN [err |-> "EOF", n |-> 0, utmp |-> NoUtmp]
        ELSE IF rest < UtmpSize
        THEN [err |-> "ErrUnexpectedEOF", n |-> rest, utmp |-> NoUtmp]
        ELSE [err |-> "nil", n |-> UtmpSize,
              utmp |-> Decode(SubSeq(d, p + 1, p + UtmpSize))]

\* (only a clean end of the data ends the loop)
EndOfDataCleanOnly(e) == e = "EOF"

\* the errors of Read on which the read loop of GetUsers breaks
EndOfData(e) == e = "EOF" \/ e = "ErrUnexpectedEOF"

\* ------------------------------------------------------------------------
\* The bytes of a file
\* ------------------------------------------------------------------------

\* n zero bytes
Zeros(n) == [i \in 1..n |-> 0]

\* the two bytes of a 16 bit value, the four bytes of a 32 bit value
\* (not negative), little-endian
LE16(n) == << n % 256, (n \div 256) % 256 >>

LE32(n) ==
    << n % 256, (n \div 256) % 256, (n \div 65536) % 256,
       (n \div 16777216) % 256 >>

\* the bytes of the record u in a file of the host: a struct utmp of a
\* 64-bit platform, 384 bytes
Bytes(u) ==
    LE16(u.Type) \o Zeros(2) \o u.PID \o u.Line \o u.ID \o u.User \o u.Host
      \o Zeros(4) \o LE32(u.Session) \o LE32(u.TV.Sec) \o LE32(u.TV.Usec)
      \o LE32(u.AddrV6[1]) \o LE32(u.AddrV6[2]) \o LE32(u.AddrV6[3])
      \o LE32(u.AddrV6[4]) \o Zeros(20)

\* a record of no known kind whose bytes differ from place to place
PatternBlock == [i \in 1..384 |-> (7 * (i - 1) + 3) % 256]

\* the whole records a file is made of: the three records of FileRecs, a
\* BOOT_TIME record and the pattern
BlockVals ==
    { Bytes(FileRecs[i]) : i \in 1..Len(FileRecs) }
      \cup { Bytes(BootRec), PatternBlock }

\* the number of bytes of a trailing record cut short
TailLens == { 0, 1, 200, 383 }

RECURSIVE Flatten(_)
Flatten(bs) == IF bs = << >> THEN << >> ELSE Head(bs) \o Flatten(Tail(bs))

\* the files: up to MaxBlocks whole records, then the first bytes of a
\* login record
FileData ==
    { Flatten(bs) \o SubSeq(Bytes(FileRecs[2]), 1, k) :
        bs \in UNION { [1..n -> BlockVals] : n \in 0..MaxBlocks },
        k \in TailLens }

\* the whole records of the bytes d, decoded
RECURSIVE RecordsOf(_)
RecordsOf(d) ==
    IF Len(d) < UtmpSize THEN << >>
    ELSE << Decode(SubSeq(d, 1, UtmpSize)) >>
           \o RecordsOf(SubSeq(d, UtmpSize + 1, Len(d)))

\* ------------------------------------------------------------------------
\* GetUsers reading a file through Read
\* ------------------------------------------------------------------------

InitFile ==
    /\ useEUID \in BOOLEAN
    /\ proc = ProcTable
    /\ tpc = "read"
    /\ tables = EmptyTables
    /\ before = EmptyTables
    /\ rec = NoRec
    /\ nrec = 0
    /\ born = {}
    /\ users = << >>
    /\ err = FALSE
    /\ WatchOff
    /\ StatOff
    /\ data \in FileData
    /\ pos = 0
    /\ rerr = "nil"
    /\ utmp = NoUtmp
    /\ CopyOff
    /\ StrOff

\* Read fills u: one turn of the loop
FileRead ==
    /\ tpc = "read"
    /\ LET r == Read(data, pos)
       IN  /\ r.err = "nil"
           /\ rerr' = r.err
           /\ utmp' = r.utmp
           /\ pos' = pos + r.n
           /\ before' = tables
           /\ tables' = ProcessRecord(tables, r.utmp, useEUID, proc)
    /\ nrec' = nrec + 1
    /\ UNCHANGED << useEUID, proc, tpc, rec, born, users, err, data,
                   watchVars, statVars, copyVars, strVars >>

\* Read fails at the end of the data: break, map to slice, sort, return
FileEnd ==
    /\ tpc = "read"
    /\ LET r == Read(data, pos)
       IN  /\ r.err # "nil"
           /\ EndOfData(r.err)
           /\ rerr' = r.err
           /\ pos' = pos + r.n
    /\ \E ks \in SortedKeyOrders(tables.base) :
        users' = UsersOf(tables.base, ks)
    /\ tpc' = "done"
    /\ UNCHANGED << useEUID, proc, tables, before, rec, nrec, born, err,
                   data, utmp, watchVars, statVars, copyVars, strVars >>

\* Read fails with another error (the error of Read that does not end the
\* loop, or an error of the device): return Users{}, err
FileFail ==
    /\ tpc = "read"
    /\ \E e \in { Read(data, pos).err, "EIO" } :
        /\ e # "nil"
        /\ ~EndOfData(e)
        /\ rerr' = e
    /\ tpc' = "done"
    /\ err' = TRUE
    /\ UNCHANGED << useEUID, proc, tables, before, rec, nrec, born, users,
                   data, pos, utmp, watchVars, statVars, copyVars, strVars >>

FileNext == OpenFail \/ FileRead \/ FileEnd \/ FileFail

SpecFile == InitFile /\ [][FileNext]_vars

\* ------------------------------------------------------------------------
\* Properties of Read and of GetUsers over the bytes of a file
\* ------------------------------------------------------------------------

\* the lists GetUsers returns for the whole records of the bytes d
ResultsOf(d) ==
    LET base == Replay(EmptyTables, RecordsOf(d), useEUID, proc).base
    IN  { UsersOf(base, ks) : ks \in SortedKeyOrders(base) }

\* C21: when the read loop of GetUsers ends on a trailing record cut short
\* (fewer bytes left than one record), GetUsers returns no error and a
\* list it returns for the file that ends cleanly after the last whole
\* record: the sessions of the whole records before the cut.
C21_TruncatedTail ==
    tpc = "done" /\ rerr = "ErrUnexpectedEOF"
      => /\ ~err
         /\ Len(data) % UtmpSize # 0
         /\ users \in ResultsOf(SubSeq(data, 1, Len(data)
                                                 - (Len(data) % UtmpSize)))

\* GetUsers has returned a session from a file whose last record lacks one
\* byte
C21_Witness ==
    /\ tpc = "done"
    /\ rerr = "ErrUnexpectedEOF"
    /\ Len(data) % UtmpSize = UtmpSize - 1
    /\ nrec >= 1
    /\ users # << >>

\* the widths of the fields of a record as the layout of the specification
\* gives them, and with an exit-status pair of two 16 bit values
SpecWidths == << 2, 2, 4, 32, 4, 32, 256, 8, 4, 8, 16, 20 >>

PairWidths == << 2, 2, 4, 32, 4, 32, 256, 4, 4, 8, 16, 20 >>

\* the offset the widths w imply for field k
RECURSIVE StartOf(_, _)
StartOf(w, k) == IF k = 1 THEN 0 ELSE StartOf(w, k - 1) + w[k - 1]

\* the bytes the widths w give to field k of the record bytes b
At(b, w, k) == SubSeq(b, StartOf(w, k) + 1, StartOf(w, k) + w[k])

\* the little-endian two's complement value of the bytes b
RECURSIVE SignedLE(_)
SignedLE(b) ==
    IF Len(b) = 1 THEN (IF b[1] >= 128 THEN b[1] - 256 ELSE b[1])
    ELSE b[1] + 256 * SignedLE(Tail(b))

\* the last Read took one record of the widths w from the file and filled
\* each field from the place the widths imply
DecodedBy(w) ==
    LET size == StartOf(w, Len(w) + 1)
    IN  /\ pos = nrec * size
        /\ LET b == SubSeq(data, pos - size + 1, pos)
               e == At(b, w, 8)
               t == At(b, w, 10)
               a == At(b, w, 11)
           IN  /\ utmp.Type = SignedLE(At(b, w, 1))
               /\ utmp.Pad0_unused = At(b, w, 2)
               /\ utmp.PID = At(b, w, 3)
               /\ utmp.Line = At(b, w, 4)
               /\ utmp.ID = At(b, w, 5)
               /\ utmp.User = At(b, w, 6)
               /\ utmp.Host = At(b, w, 7)
               /\ utmp.Exit.Termination
                    = SignedLE(SubSeq(e, 1, Len(e) \div 2))
               /\ utmp.Exit.Exit
                    = SignedLE(SubSeq(e, Len(e) \div 2 + 1, Len(e)))
               /\ utmp.Session = SignedLE(At(b, w, 9))
               /\ utmp.TV.Sec = SignedLE(SubSeq(t, 1, 4))
               /\ utmp.TV.Usec = SignedLE(SubSeq(t, 5, 8))
               /\ \A i \in 1..4 :
                    utmp.AddrV6[i] = SignedLE(SubSeq(a, 4 * i - 3, 4 * i))
               /\ utmp.Pad1_unused = At(b, w, 12)

\* C25 as stated: the record Read decodes has the widths 2, 2, 4, 32, 4, 32,
\* 256, 8 (exit-status pair), 4, 8, 16, 20 in this order: each field is
\* taken from the offset these widths imply and a record takes their sum,
\* 388 bytes.
C25_SpecLayout == rerr = "nil" /\ nrec >= 1 => DecodedBy(SpecWidths)

\* C25, amended: the record Read decodes has the widths 2, 2, 4, 32, 4, 32,
\* 256, 4 (the exit-status pair is two 16 bit values), 4, 8, 16, 20 in this
\* order: each field is taken from the offset these widths imply and a
\* record takes their sum, 384 bytes.
C25_Layout == rerr = "nil" /\ nrec >= 1 => DecodedBy(PairWidths)

\* the second record of a file is decoded from bytes that differ from place
\* to place
C25_Witness ==
    /\ rerr = "nil"
    /\ nrec = 2
    /\ utmp.Type = 2563
    /\ utmp.Exit.Termination # utmp.Exit.Exit
    /\ utmp.Session # 0

\* ------------------------------------------------------------------------
\* Properties of one turn of the read loop of GetUsers
\* ------------------------------------------------------------------------

\* the key of the primary table record u is about when it is read with the
\* tables t: the recorded (user, terminal), the user of a DEAD_PROCESS
\* record resolved through the indices
ResolvedKey(t, u) ==
    IF u.Type = DEAD_PROCESS
    THEN << LogoutUser(t, u), Str(u.Line) >>
    ELSE << Str(u.User), Str(u.Line) >>

\* the record whose fields the read loop took last
RecordOf(f) == CHOOSE u \in Records : Fields(u) = f

\* C22: when two records that follow each other, neither a BOOT_TIME
\* record, are about different resolved keys (in the order read and in the
\* other order), reading them in the other order leaves the same primary
\* table, so the same set of sessions to return.  (The tables a BOOT_TIME
\* record leaves are those of an empty file, so the tables before the two
\* records are those of a sequence without BOOT_TIME record.)
C22_SwapAdjacent ==
    [][ (tpc = "read" /\ nrec >= 1 /\ nrec' = nrec + 1
         /\ rec.Type # BOOT_TIME /\ rec'.Type # BOOT_TIME)
        => LET u1 == RecordOf(rec)
               u2 == RecordOf(rec')
               t2 == ProcessRecord(before, u2, useEUID, proc)
           IN  (/\ ResolvedKey(before, u1) # ResolvedKey(tables, u2)
                /\ ResolvedKey(before, u2) # ResolvedKey(t2, u1))
               => ProcessRecord(t2, u1, useEUID, proc).base = tables'.base
      ]_vars

\* ------------------------------------------------------------------------
\* Properties of the statistics and of the login information of a list
\* ------------------------------------------------------------------------

\* C23: in the statistics of a list with no session of unknown type, Total
\* is the sum of LocalX, Local, RemoteX and Remote, plus one when the list
\* holds a session of root.
C23_TotalIsSum ==
    (spc = "done" /\ \A i \in 1..Len(ltypes) : ltypes[i] # UNKNOWN)
      => lstat.Total
           = lstat.LocalX + lstat.Local + lstat.RemoteX + lstat.Remote
             + (IF RootName \in NamesOf(sessions) THEN 1 ELSE 0)

\* the sessions of name n in the list
SessionsOf(n) == { i \in 1..Len(sessions) : sessions[i].Name = n }

\* C24: for every name with a session in the list, the Time GetUserLogin
\* returns is the latest login time among the sessions of the name, and
\* Logons is the number of these sessions.
C24_LastLoginTime ==
    spc = "done"
      => \A n \in NamesOf(sessions) :
            /\ ulogin[n].Logons = Cardinality(SessionsOf(n))
            /\ \E i \in SessionsOf(n) : ulogin[n].Time = sessions[i].Time
            /\ \A i \in SessionsOf(n) :
                 ~After(sessions[i].Time, ulogin[n].Time)

\* ------------------------------------------------------------------------
\* Properties of the correlation indices of GetUsers
\* ------------------------------------------------------------------------

\* the sessions of the primary table t.base
LiveOf(t) == { t.base[k] : k \in DOMAIN t.base }

\* C26: after every record, (a) every entry of the (terminal, pid) index
\* and of the (terminal, id) index is a session of the primary table, and
\* (b) every session of the primary table is the entry of the (terminal,
\* pid) index under its own terminal and pid and the entry of the
\* (terminal, id) index under its own terminal and id.
C26_IndicesMirror ==
    /\ \A tp \in DOMAIN tables.pbase : tables.pbase[tp] \in LiveOf(tables)
    /\ \A ti \in DOMAIN tables.ibase : tables.ibase[ti] \in LiveOf(tables)
    /\ \A u \in LiveOf(tables) :
         /\ << u.TTY, u.PID >> \in DOMAIN tables.pbase
         /\ tables.pbase[<< u.TTY, u.PID >>] = u
         /\ << u.TTY, u.ID >> \in DOMAIN tables.ibase
         /\ tables.ibase[<< u.TTY, u.ID >>] = u

\* C27: a DEAD_PROCESS record whose resolved (user, terminal) key has no
\* live session leaves the primary table and both indices as they were.
C27_LogoutOfNoSession ==
    (rec.Type = DEAD_PROCESS
     /\ ResolvedKey(before, RecordOf(rec)) \notin DOMAIN before.base)
      => tables = before

\* C28: a USER_PROCESS record for a key with a live session replaces the
\* session if and only if its time is strictly later than the session's;
\* otherwise the primary table and both indices stay as they were.  After
\* a replacement both indices give the new session under the record's
\* (terminal, pid) and (terminal, id), and no index entry is the replaced
\* session.
C28_Replacement ==
    LET key == << rec.User, rec.TTY >>
    IN  (rec.Type = USER_PROCESS /\ key \in DOMAIN before.base)
          => LET old == before.base[key]
                 nu  == tables.base[key]
             IN  IF After(rec.Time, old.Time)
                 THEN /\ nu.Time = rec.Time
                      /\ nu.PID = rec.PID
                      /\ tables.pbase[<< rec.TTY, rec.PID >>] = nu
                      /\ tables.ibase[<< rec.TTY, rec.ID >>] = nu
                      /\ \A tp \in DOMAIN tables.pbase :
                           tables.pbase[tp] # old
                      /\ \A ti \in DOMAIN tables.ibase :
                           tables.ibase[ti] # old
                 ELSE tables = before

\* the entries of an index
EntriesOf(m) == { m[k] : k \in DOMAIN m }

\* C29: a DEAD_PROCESS record with a blank user name takes the name of the
\* (terminal, pid) entry when there is one, of the (terminal, id) entry
\* only when there is no (terminal, pid) entry, and stays blank when there
\* is neither; the key of that name and the terminal is removed from the
\* primary table, and the session the name was taken from is removed from
\* both indices.
C29_BlankLogoutResolution ==
    BlankLogout =>
        LET tp   == << rec.TTY, rec.PID >>
            ti   == << rec.TTY, rec.ID >>
            from == IF tp \in DOMAIN before.pbase THEN { before.pbase[tp] }
                    ELSE IF ti \in DOMAIN before.ibase THEN { before.ibase[ti] }
                    ELSE {}
            name == IF from = {} THEN << >>
                    ELSE (CHOOSE u \in from : TRUE).Name
        IN  /\ tables.base = Delete(before.base, << name, rec.TTY >>)
            /\ \A u \in from : /\ u \notin EntriesOf(tables.pbase)
                               /\ u \notin EntriesOf(tables.ibase)

\* the record read last is neither a BOOT_TIME, a USER_PROCESS nor a
\* DEAD_PROCESS record
OtherKind ==
    nrec >= 1 /\ rec.Type \notin { BOOT_TIME, USER_PROCESS, DEAD_PROCESS }

\* C30: a record that is neither a BOOT_TIME, a USER_PROCESS nor a
\* DEAD_PROCESS record leaves the primary table and both indices as they
\* were, and the list GetUsers returns after it is a list it returns for
\* the records before it.
C30_OtherKindsIgnored ==
    OtherKind
      => /\ tables = before
         /\ (tpc = "done" /\ ~err
               => \E ks \in SortedKeyOrders(before.base) :
                     users = UsersOf(before.base, ks))

\* GetUsers has returned sessions from a file whose last record is a
\* RUN_LVL record read while sessions were live and indexed
C30_Witness ==
    /\ OtherKind
    /\ rec.Type = RUN_LVL
    /\ DOMAIN before.base # {}
    /\ DOMAIN before.pbase # {}
    /\ DOMAIN before.ibase # {}
    /\ tpc = "done"
    /\ users # << >>

\* ------------------------------------------------------------------------
\* Properties of the classification and of the active session
\* ------------------------------------------------------------------------

\* C31: for a session without the mark of a display in host, suffix and
\* terminal, LoginType is LOCAL exactly when the host and the address are
\* both empty and REMOTE otherwise, and it is the same with any process
\* table (the table is not looked at).
C31_NoDisplay ==
    spc = "done"
      => \A i \in 1..Len(sessions) :
            ~HasDisplay(sessions[i])
              => /\ ltypes[i] = IF /\ IPEmpty(sessions[i].IP)
                                   /\ sessions[i].Host = << >>
                                THEN LOCAL_T
                                ELSE REMOTE
                 /\ \A pr \in { << >>, ProcTable, XProcTable } :
                      LoginType(sessions[i], pr) = ltypes[i]

\* sessions without the mark of a display are classified: one with a host
\* and no address, one with an address and no host, one with neither
C31_Witness ==
    /\ spc = "done"
    /\ \E i \in 1..Len(sessions) :
          /\ ~HasDisplay(sessions[i])
          /\ sessions[i].Host # << >> /\ IPEmpty(sessions[i].IP)
          /\ ltypes[i] = REMOTE
    /\ \E i \in 1..Len(sessions) :
          /\ ~HasDisplay(sessions[i])
          /\ sessions[i].Host = << >> /\ ~IPEmpty(sessions[i].IP)
          /\ ltypes[i] = REMOTE
    /\ \E i \in 1..Len(sessions) :
          /\ ~HasDisplay(sessions[i])
          /\ sessions[i].Host = << >> /\ IPEmpty(sessions[i].IP)
          /\ ltypes[i] = LOCAL_T

\* the greatest type of the list
MaxType == CHOOSE t \in { ltypes[i] : i \in 1..Len(ltypes) } :
               \A i \in 1..Len(ltypes) : ltypes[i] <= t

\* the place of the last session of the greatest type
LastOfMaxType ==
    CHOOSE i \in 1..Len(sessions) :
        /\ ltypes[i] = MaxType
        /\ \A j \in (i + 1)..Len(sessions) : ltypes[j] # MaxType

\* C32: for a list with sessions and no session of root, the active
\* session of GetLoginStat is the last session of the list among those of
\* the greatest type, and the active user of the statistics is the user of
\* that session.
C32_LastOfMaxRank ==
    (spc = "done" /\ sessions # << >> /\ RootName \notin NamesOf(sessions))
      => /\ StatLoopBy(ltypes, sessions).user = sessions[LastOfMaxType]
         /\ StatLoopBy(ltypes, sessions).Type = MaxType
         /\ lstat.Active # Nil
         /\ lstat.Active.Name = sessions[LastOfMaxType].Name

\* the list holds sessions of the greatest type of two users, the first
\* of them before a session of a lower type
C32_Witness ==
    /\ spc = "done"
    /\ Len(sessions) = 3
    /\ RootName \notin NamesOf(sessions)
    /\ ltypes[1] = ltypes[3]
    /\ ltypes[2] < ltypes[1]
    /\ sessions[1].Name # sessions[3].Name
    /\ lstat.Active # Nil
    /\ lstat.Active.Name = sessions[3].Name

\* ------------------------------------------------------------------------
\* Properties of the login and logout lists of the events
\* ------------------------------------------------------------------------

\* an event is being published: the goroutine of Login or of NewNotify is
\* at its send
Publishing == wpc = "send" \/ upc = "send"

\* C33: in every published event Login is the set of the (Name, TTY) keys
\* of the sessions of the pass that are not keys of the sessions of the
\* pass before, Logout the set of the keys of the pass before that are not
\* keys of this pass, the two are disjoint, and the first event has every
\* key of its pass in Login and an empty Logout.
C33_LoginLogoutDelta ==
    Publishing
      => /\ passes[2] = KeysOf(lusers)
         /\ evt.Login = passes[2] \ passes[1]
         /\ evt.Logout = passes[1] \ passes[2]
         /\ evt.Login \cap evt.Logout = {}
         /\ (Len(built) = 1
               => evt.Login = KeysOf(lusers) /\ evt.Logout = {})

\* ------------------------------------------------------------------------
\* api.go, login.go: l.logins and Login.GetUsers
\* A slice is modelled by the number of its array in arrays; an element of
\* an array is a LoginInfo, a value without references.
\* ------------------------------------------------------------------------

\* number of arrays made: by the passes and by the calls of GetUsers
MaxArrays == 4

\* the LoginInfo of "a" with one local session and of "b" with one remote
\* session
InfoVals ==
    { GetLoginInfo(<< u >>, u.Name, XProcTable, SessNames).info :
        u \in { v \in SessVals : /\ ~HasDisplay(v)
                                 /\ v.Name # RootName
                                 /\ (v.Name = << 97 >>) = (v.Host = << >>)
                                 /\ (v.Host = << >>) = IPEmpty(v.IP) } }

\* the lists of a pass: up to two users, one LoginInfo for each name
ListVals ==
    {<< >>} \cup { << v >> : v \in InfoVals }
            \cup { p \in InfoVals \X InfoVals : p[1] # p[2] }

\* (no new array: the slice handed out shares the array)
CopyShares(hp, ref) == [heap |-> hp, ref |-> ref]

\* make([]LoginInfo, len(src)) and copy(dst, src): a new array with the
\* elements of the array ref
CopyOf(hp, ref) == [heap |-> Append(hp, hp[ref]), ref |-> Len(hp) + 1]

\* a Login after NewLogin returned: the first pass has stored its list
InitCopy ==
    /\ useEUID = TRUE
    /\ proc = XProcTable
    /\ tpc = "off"
    /\ tables = EmptyTables
    /\ before = EmptyTables
    /\ rec = NoRec
    /\ nrec = 0
    /\ born = {}
    /\ users = << >>
    /\ err = FALSE
    /\ WatchOff
    /\ StatOff
    /\ ReadOff
    /\ StrOff
    /\ \E l \in ListVals :
        /\ arrays = << l >>
        /\ stored = l
    /\ lref = 1
    /\ got = << >>

\* readUtmp, under loginsMx: l.logins = make(...); copy(l.logins, logins)
StoreLogins ==
    /\ Len(arrays) < MaxArrays
    /\ \E l \in ListVals :
        /\ arrays' = Append(arrays, l)
        /\ stored' = l
    /\ lref' = Len(arrays) + 1
    /\ UNCHANGED << useEUID, proc, trackVars, watchVars, statVars, fileVars,
                    strVars, got >>

\* Login.GetUsers, under loginsMx: the copy of l.logins is returned
CallGetUsers ==
    /\ Len(arrays) < MaxArrays
    /\ LET c == CopyOf(arrays, lref)
       IN  /\ arrays' = c.heap
           /\ got' = Append(got, [ref  |-> c.ref,
                                  ret  |-> c.heap[c.ref],
                                  was  |-> stored,
                                  held |-> c.heap[c.ref]])
    /\ UNCHANGED << useEUID, proc, trackVars, watchVars, statVars, fileVars,
                    strVars, lref, stored >>

\* the holder of a returned list assigns to one of its elements
ChangeList ==
    /\ \E g \in 1..Len(got) :
         \E i \in 1..Len(arrays[got[g].ref]) :
           \E v \in InfoVals :
             /\ v # arrays[got[g].ref][i]
             /\ arrays' = [arrays EXCEPT ![got[g].ref][i] = v]
             /\ got' = [got EXCEPT ![g].held[i] = v]
    /\ UNCHANGED << useEUID, proc, trackVars, watchVars, statVars, fileVars,
                    strVars, lref, stored >>

CopyNext == StoreLogins \/ CallGetUsers \/ ChangeList

SpecCopy == InitCopy /\ [][CopyNext]_vars

\* C34: Login.GetUsers hands out a copy: a returned list holds the snapshot
\* stored when it was returned; the stored snapshot is what the last pass
\* stored, whatever was assigned to the returned lists; and a returned list
\* holds what was returned and what its holder assigned to it, whatever the
\* passes stored later.
C34_GetUsersCopies ==
    /\ arrays[lref] = stored
    /\ \A g \in 1..Len(got) :
         /\ got[g].ret = got[g].was
         /\ arrays[got[g].ref] = got[g].held

\* a list was returned and changed by its holder, a pass stored another
\* snapshot, and GetUsers was called again
C34_Witness ==
    /\ Len(got) = 2
    /\ got[1].held # got[1].ret
    /\ got[1].ref < lref
    /\ stored # got[1].ret
    /\ got[2].ref > lref
    /\ got[2].ret = stored

\* ------------------------------------------------------------------------
\* utmp.go: Str on the character arrays of a record
\* ------------------------------------------------------------------------

\* the bytes an ID array is filled with
ByteVals == {0, 1, 97, 255}

\* the array of width n with a zero at the places of z and other bytes
\* elsewhere
ZerosAt(n, z) == [i \in 1..n |-> IF i \in z THEN 0 ELSE 1 + (i % 255)]

\* the arrays handed to Str: every ID array over ByteVals, and Line and
\* Host arrays with zeros at the first, second, middle and last places
StrInputs ==
    [1..IDSIZE -> ByteVals]
    \cup { ZerosAt(n, z) : n \in {LINESIZE, HOSTSIZE},
                           z \in SUBSET {1, 2, 16, 32, 256} }

InitStr ==
    /\ useEUID = TRUE
    /\ proc = XProcTable
    /\ tpc = "off"
    /\ tables = EmptyTables
    /\ before = EmptyTables
    /\ rec = NoRec
    /\ nrec = 0
    /\ born = {}
    /\ users = << >>
    /\ err = FALSE
    /\ WatchOff
    /\ StatOff
    /\ ReadOff
    /\ CopyOff
    /\ src \in StrInputs
    /\ str = NoStr

\* a call of Str(src)
CallStr ==
    /\ str = NoStr
    /\ str' = Str(src)
    /\ UNCHANGED << useEUID, proc, trackVars, watchVars, statVars, fileVars,
                    copyVars, src >>

SpecStr == InitStr /\ [][CallStr]_vars

\* C35: Str returns exactly the bytes of the array before its first zero
\* byte, the whole array when it has no zero byte; no byte at or after the
\* first zero is in the result.
C35_StrUpToFirstZero ==
    str # NoStr =>
        /\ Len(str) <= Len(src)
        /\ \A i \in 1..Len(str) : str[i] = src[i] /\ src[i] # 0
        /\ Len(str) < Len(src) => src[Len(str) + 1] = 0

\* Str returned for an array with bytes other than zero after its first
\* zero, which is not at the first place
C35_Witness ==
    /\ str # NoStr
    /\ Len(str) > 0
    /\ Len(str) < Len(src)
    /\ \E i \in (Len(str) + 2)..Len(src) : src[i] # 0

\* ------------------------------------------------------------------------
\* Replaying the deltas of the events
\* ------------------------------------------------------------------------

\* the key set a consumer gets from the events evs: for each event in
\* order, its Login keys are added and its Logout keys removed
RECURSIVE DeltaReplay(_)
DeltaReplay(evs) ==
    IF evs = << >> THEN {}
    ELSE LET e == evs[Len(evs)]
         IN  (DeltaReplay(SubSeq(evs, 1, Len(evs) - 1)) \cup e.Login)
                 \ e.Logout

\* the goroutine of Login or of NewNotify waits for the next change of the
\* file: no pass is under way and no event waits to be received
Waiting == wpc = "select" \/ upc = "recv"

\* C36: when the notifier waits for the next change and every event built
\* was received, the replay of the deltas of the received events is the key
\* set of the notifier's most recent decode pass, and it is the notifier's
\* remembered key set: no pass changed that set without publishing its
\* delta.
C36_ReplayIsLastPass ==
    (Waiting /\ received = built)
      => /\ DeltaReplay(received) = passes[2]
         /\ DeltaReplay(received) = logged

\* ------------------------------------------------------------------------
\* The keys of the list GetUsers returns
\* ------------------------------------------------------------------------

\* C37: the sessions of a list GetUsers returned have pairwise distinct
\* (Name, TTY) pairs, with useEUID set too.
C37_DistinctPairs ==
    (tpc = "done" /\ ~err)
      => \A i, j \in 1..Len(users) :
           (users[i].Name = users[j].Name /\ users[i].TTY = users[j].TTY)
             => i = j

\* ------------------------------------------------------------------------
\* The statistics of an empty list
\* ------------------------------------------------------------------------

\* C38: the statistics of an empty list of sessions are taken without a
\* failure, by Users.GetLoginStat and by GetUsersStat, and have every count
\* zero, both root flags false and no active user.
C38_EmptyListStat ==
    (spc = "done" /\ sessions = << >>)
      => /\ lstat = ZeroStat
         /\ ~ostat.panic
         /\ ostat.stat = ZeroStat

====
